---- MODULE Spec2Model ----
(***************************************************************************)
(* Verification model of the visual-telemetry core of SysEvoV2:            *)
(*   - the OHLC Metric and its two update routines (channel and audio),    *)
(*   - the VirtualChannelManager signal channel (push / pushAggregated /   *)
(*     harvest) with its composite keys,                                   *)
(*   - the standalone ticker, flushStandalone and the buffered send,       *)
(*   - the unified DOM + virtual flush of DOMTelemetryRuntime,             *)
(*   - the TopologyChecker streak logic,                                   *)
(*   - the interval verdict (Go judgeInterval and TS deriveVerdict).       *)
(* Numbers are integers; a nullable number is the empty tuple (null) or a  *)
(* one-element tuple holding the number.                                   *)
(***************************************************************************)
EXTENDS Integers, Sequences, FiniteSets, TLC

VARIABLES
    producer,       \* SpecMetric: which producer's routines drive `metric`
    metric,         \* SpecMetric: one OHLC buffer
    signals,        \* VirtualChannelManager.signals : compositeKey -> ctx
    lastCall,       \* the most recent call (operation and arguments)
    result,         \* return value of the most recent harvest()
    window,         \* samples pushed per (targetId, metricKey) since the last harvest
    now,            \* performance.now(), in ms
    lastFlushTime,  \* VirtualChannelManager.lastFlushTime
    isActive,       \* VirtualChannelManager.isActive
    rafId,          \* VirtualChannelManager.rafId: null or the handle of the last request
    scheduled,      \* number of requested animation-frame callbacks of tick not yet run
    tunnel,         \* whether window.__OUROBOROS_TUNNEL__ / telemetryTunnel is attached
    pendingFrames,  \* VirtualChannelManager.pendingFrames
    delivered,      \* the payloads the tunnel has been called with, in order
    assembled,      \* the payloads the flush paths have assembled, in order
    registry,       \* DOMTelemetryRuntime.registry, in insertion order
    document,       \* the data-vt-id elements connected to the document, in document order
    contract,       \* the RankContract registered with the TopologyChecker
    frameIdx,       \* check(): number of frames of the batch processed so far
    violationStreaks, \* check(): violationStreaks.get(contract.id) || 0
    violations,     \* check(): frameIndex of every Violation pushed, in order
    frameKinds,     \* per processed frame: "violating", "compliant" or "inactive"
    frameWeight,    \* data[idModal].w.c of the frame processed last, Null when there is none
    lastRanks,      \* checkContract(c, ranks): the ranks of its last call
    diagnosis,      \* IntervalDiagnosis handed to judgeInterval (Go)
    alignment,      \* input and verdict of deriveVerdict (TypeScript)
    stream,         \* TelemetryStreamKey: the raw frame list
    scenarioIndex,  \* ScenarioIndexKey of the diagnosed scenario: its frame list
    report,         \* what the most recent Diagnose returned
    extracted,      \* the marker list the most recent analysis worked on
    analyzer,       \* MarkerAlignmentAnalyzer: its frames and markers
    tsReport,       \* what the most recent MarkerAlignmentAnalyzer.analyze returned
    execState,      \* TimelineExecutor.state: Null or the ExecutionState of a run
    runs,           \* per execute() call: where its coroutine stands and what it has done
    fetchHook,      \* window.fetch and window[FETCH_ORIGINAL]
    heap,           \* the Metric objects of the channel, by object identity
    bufferOf,       \* signals.get(compositeKey).buffer as an object identity
    returned,       \* the Metric objects harvest has returned, with their values then
    injected        \* the markers pushed so far, in order: name and timestamp

chanVars == <<signals, lastCall, result, window>>
tickVars == <<now, lastFlushTime, isActive, rafId, scheduled>>
sinkVars == <<tunnel, pendingFrames, delivered, assembled>>

domVars == <<registry, document>>
topoVars == <<contract, frameIdx, violationStreaks, violations, frameKinds, frameWeight, lastRanks>>
judgeVars == <<diagnosis, alignment>>
anaVars == <<stream, scenarioIndex, report, extracted, analyzer, tsReport>>
execVars == <<execState, runs, fetchHook>>
heapVars == <<heap, bufferOf, returned>>
injVars == <<injected>>
newVars == <<execVars, heapVars, injVars>>
extVars == <<domVars, topoVars, judgeVars, anaVars, newVars>>

vars == <<producer, metric, chanVars, tickVars, sinkVars, extVars>>

----------------------------------------------------------------------------
(* Bounds *)

MaxValue == 1       \* channel samples are 0..MaxValue
MaxSample == 4      \* samples of the single-buffer specification are -1..MaxSample
MaxTime == 300      \* the clock of the ticker specifications stops here
TimeStep == 50      \* the clock advances in steps of TimeStep ms
FlushValue == 1     \* the sample the ticker specifications push
MaxSendFrames == 203 \* number of frames sent in the transport specification

(* Program constants *)

MAX_PENDING == 200
FLUSH_INTERVAL_MS == 100

----------------------------------------------------------------------------
(* Nullable numbers *)

Null == <<>>
Num(v) == <<v>>
Val(x) == x[1]

Min2(a, b) == IF a < b THEN a ELSE b
Max2(a, b) == IF a > b THEN a ELSE b

EmptyMap == [x \in {} |-> x]

Permutations1(n) == {p \in [1..n -> 1..n] : \A i, j \in 1..n : i # j => p[i] # p[j]}

----------------------------------------------------------------------------
(* The Metric: VirtualChannelManager helpers *)

createEmptyMetric == [o |-> Null, h |-> Null, l |-> Null, c |-> Null]

updateMetricNoLow(m, value) ==
    IF m.o = Null
    THEN [o |-> Num(value), h |-> Num(value), l |-> Num(value), c |-> Num(value)]
    ELSE [o |-> m.o,
          h |-> IF value > Val(m.h) THEN Num(value) ELSE m.h,
          l |-> m.l,
          c |-> Num(value)]

updateMetric(m, value) ==
    IF m.o = Null
    THEN [o |-> Num(value), h |-> Num(value), l |-> Num(value), c |-> Num(value)]
    ELSE [o |-> m.o,
          h |-> IF value > Val(m.h) THEN Num(value) ELSE m.h,
          l |-> IF value < Val(m.l) THEN Num(value) ELSE m.l,
          c |-> Num(value)]

(* The Metric: AudioTelemetryRuntime helpers (open is nullable, the other   *)
(* three fields start at the number -1).                                    *)

audioCreateEmptyMetric == [o |-> Null, h |-> Num(0 - 1), l |-> Num(0 - 1), c |-> Num(0 - 1)]

audioUpdateMetric(m, value) ==
    IF m.o = Null
    THEN [o |-> Num(value), h |-> Num(value), l |-> Num(value), c |-> Num(value)]
    ELSE [o |-> m.o,
          h |-> IF value > Val(m.h) THEN Num(value) ELSE m.h,
          l |-> IF value < Val(m.l) THEN Num(value) ELSE m.l,
          c |-> Num(value)]

----------------------------------------------------------------------------
(* Signal keys.  Identifiers are strings, modelled as sequences of          *)
(* characters so that the composite key and its parse are computed.         *)

idA == <<"a">>
idAB == <<"a", ":", "b">>
idC == <<"c">>
idBC == <<"b", ":", "c">>

\* the (targetId, metricKey) pairs producers push to
Keys == {<<idA, idC>>, <<idA, idBC>>, <<idAB, idC>>}

compositeKey(targetId, metricKey) == targetId \o <<":">> \o metricKey

\* String.prototype.lastIndexOf(':'), 1-based; 0 when absent
lastIndexOfColon(key) ==
    IF \E i \in 1..Len(key) : key[i] = ":"
    THEN CHOOSE i \in 1..Len(key) :
            /\ key[i] = ":"
            /\ \A j \in (i + 1)..Len(key) : key[j] # ":"
    ELSE 0

parseCompositeKey(key) ==
    LET lastIdx == lastIndexOfColon(key)
    IN  IF lastIdx = 0
        THEN <<key, <<"v", "a", "l", "u", "e">> >>
        ELSE <<SubSeq(key, 1, lastIdx - 1), SubSeq(key, lastIdx + 1, Len(key))>>

----------------------------------------------------------------------------
(* VirtualChannelManager: push, pushAggregated, harvest as functions of the *)
(* signals map.                                                            *)

pushMetric(sig, targetId, metricKey, value, t) ==
    LET ck == compositeKey(targetId, metricKey)
        buf == IF ck \in DOMAIN sig THEN sig[ck].buffer ELSE createEmptyMetric
    IN  (ck :> [buffer |-> updateMetric(buf, value), lastUpdateTime |-> t]) @@ sig

\* pushAggregated keeping the close of the buffer it merges into
pushAggregatedKeepClose(sig, targetId, metricKey, m, t) ==
    LET ck == compositeKey(targetId, metricKey)
    IN  IF m.o = Null THEN sig
        ELSE IF ck \notin DOMAIN sig \/ sig[ck].buffer.o = Null
        THEN (ck :> [buffer |-> m, lastUpdateTime |-> t]) @@ sig
        ELSE LET b == sig[ck].buffer
             IN  (ck :> [buffer |-> [o |-> b.o,
                                     h |-> Num(Max2(Val(b.h), Val(m.h))),
                                     l |-> Num(Min2(Val(b.l), Val(m.l))),
                                     c |-> b.c],
                         lastUpdateTime |-> t]) @@ sig

pushAggregatedOverwrite(sig, targetId, metricKey, m, t) ==
    LET ck == compositeKey(targetId, metricKey)
    IN  IF m.o = Null THEN sig
        ELSE (ck :> [buffer |-> m, lastUpdateTime |-> t]) @@ sig

pushAggregated(sig, targetId, metricKey, m, t) ==
    LET ck == compositeKey(targetId, metricKey)
    IN  IF m.o = Null THEN sig
        ELSE IF ck \notin DOMAIN sig \/ sig[ck].buffer.o = Null
        THEN (ck :> [buffer |-> m, lastUpdateTime |-> t]) @@ sig
        ELSE LET b == sig[ck].buffer
             IN  (ck :> [buffer |-> [o |-> b.o,
                                     h |-> Num(Max2(Val(b.h), Val(m.h))),
                                     l |-> Num(Min2(Val(b.l), Val(m.l))),
                                     c |-> m.c],
                         lastUpdateTime |-> t]) @@ sig

nonEmptyKeys(sig) == {ck \in DOMAIN sig : sig[ck].buffer.o # Null}

\* the map harvest() returns: result[targetId][metricKey], as a function of the pair
harvestResult(sig) ==
    [p \in {parseCompositeKey(ck) : ck \in nonEmptyKeys(sig)} |->
        sig[CHOOSE ck \in nonEmptyKeys(sig) : parseCompositeKey(ck) = p].buffer]

harvestSignalsNoReset(sig) == sig

\* the signals map harvest() leaves behind
harvestSignals(sig) ==
    [ck \in DOMAIN sig |->
        IF sig[ck].buffer.o = Null THEN sig[ck]
        ELSE [buffer |-> createEmptyMetric, lastUpdateTime |-> sig[ck].lastUpdateTime]]

----------------------------------------------------------------------------
(* Calls.  lastCall records the operation most recently invoked.           *)

Call(op, key, value, m) == [op |-> op, key |-> key, value |-> value, metric |-> m]

NoCall == Call("none", <<>>, Null, createEmptyMetric)

Values == 0..MaxValue

\* the non-empty Metrics a producer can hand to pushAggregated, and the empty one
IncomingMetrics ==
    {createEmptyMetric} \cup
    {[o |-> Num(o), h |-> Num(h), l |-> Num(l), c |-> Num(c)] :
        <<o, h, l, c>> \in {q \in Values \X Values \X Values \X Values :
                                /\ q[3] <= q[1] /\ q[1] <= q[2]
                                /\ q[3] <= q[4] /\ q[4] <= q[2]}}

----------------------------------------------------------------------------
(* State after construction of the components a specification leaves alone *)

\* DOMTelemetryRuntime: empty registry, no monitored element in the document
InitDom ==
    /\ registry = <<>>
    /\ document = <<>>

MaxRuns == 2        \* execute() calls of the TimelineExecutor specification

\* the execute() calls, by number
Runs == 1..MaxRuns

\* an execute() call that has not been made
IdleRun ==
    [pc |-> "idle", timeline |-> <<>>, idx |-> 0, markers |-> <<>>,
     aborted |-> FALSE, afterAbort |-> 0]

\* TimelineExecutor after construction, the native fetch in place; a channel
\* with no Metric object
InitNewIdle ==
    /\ execState = Null
    /\ runs = [r \in Runs |-> IdleRun]
    /\ fetchHook = [fetch |-> "original", saved |-> FALSE]
    /\ heap = <<>>
    /\ bufferOf = EmptyMap
    /\ returned = <<>>
    /\ injected = <<>>

\* TopologyChecker with no contract registered and no batch checked
NoContract ==
    [type |-> "NONE", expected |-> <<>>,
     tolerance |-> [frames |-> 0, margin |-> Null], activeWhen |-> Null]

InitTopoIdle ==
    /\ contract = NoContract
    /\ frameIdx = 0
    /\ violationStreaks = 0
    /\ violations = <<>>
    /\ frameKinds = <<>>
    /\ frameWeight = Null
    /\ lastRanks = EmptyMap

\* no interval analysed yet
NoDiagnosis == [InputVariance |-> 0, OutputVariance |-> 0, Correlation |-> 0, Verdict |-> ""]
NoAlignment == [inVar |-> 0, outVar |-> 0, corr |-> 0, verdict |-> ""]

InitJudgeIdle ==
    /\ diagnosis = NoDiagnosis
    /\ alignment = NoAlignment

\* empty store, nothing diagnosed, a fresh MarkerAlignmentAnalyzer
NoReport == [status |-> "none"]
NewAnalyzer == [frames |-> <<>>, markers |-> <<>>]

InitAnaIdle ==
    /\ stream = <<>>
    /\ scenarioIndex = <<>>
    /\ report = NoReport
    /\ extracted = <<>>
    /\ analyzer = NewAnalyzer
    /\ tsReport = NoReport

----------------------------------------------------------------------------
(* SpecMetric: one OHLC buffer driven by a producer's update routine.      *)

Producers == {"channel", "audio"}

\* channel samples are arbitrary numbers; audio levels are normalised to 0..1
\* (byte / 255), here 0..MaxSample
Samples(p) == IF p = "channel" THEN (0 - 1)..MaxSample ELSE 0..MaxSample

emptyMetricOf(p) == IF p = "channel" THEN createEmptyMetric ELSE audioCreateEmptyMetric

updateMetricOf(p, m, value) ==
    IF p = "channel" THEN updateMetric(m, value) ELSE audioUpdateMetric(m, value)

InitMetric ==
    /\ producer \in Producers
    /\ metric = emptyMetricOf(producer)
    /\ signals = EmptyMap
    /\ lastCall = NoCall
    /\ result = EmptyMap
    /\ window = [k \in Keys |-> {}]
    /\ now = 0
    /\ lastFlushTime = 0
    /\ isActive = FALSE
    /\ rafId = Null
    /\ scheduled = 0
    /\ tunnel = FALSE
    /\ pendingFrames = <<>>
    /\ delivered = <<>>
    /\ assembled = <<>>
    /\ InitDom /\ InitNewIdle /\ InitTopoIdle /\ InitJudgeIdle /\ InitAnaIdle

\* update(metric, value)
Update(value) ==
    /\ metric' = updateMetricOf(producer, metric, value)
    /\ lastCall' = Call("update", <<>>, Num(value), createEmptyMetric)
    /\ UNCHANGED <<extVars, producer, signals, result, window, tickVars, sinkVars>>

\* the buffer is replaced by a fresh empty Metric (harvest / audio flush)
Reset ==
    /\ metric' = emptyMetricOf(producer)
    /\ lastCall' = Call("reset", <<>>, Null, createEmptyMetric)
    /\ UNCHANGED <<extVars, producer, signals, result, window, tickVars, sinkVars>>

NextMetric ==
    \/ \E value \in Samples(producer) : Update(value)
    \/ Reset

SpecMetric == InitMetric /\ [][NextMetric]_vars

----------------------------------------------------------------------------
(* Spec: the signal channel under any interleaving of producer calls and   *)
(* harvests (JavaScript runs each call to completion).                     *)

Init ==
    /\ producer = "channel"
    /\ metric = createEmptyMetric
    /\ signals = EmptyMap
    /\ lastCall = NoCall
    /\ result = EmptyMap
    /\ window = [k \in Keys |-> {}]
    /\ now = 0
    /\ lastFlushTime = 0
    /\ isActive = FALSE
    /\ rafId = Null
    /\ scheduled = 0
    /\ tunnel = FALSE
    /\ pendingFrames = <<>>
    /\ delivered = <<>>
    /\ assembled = <<>>
    /\ InitDom /\ InitNewIdle /\ InitTopoIdle /\ InitJudgeIdle /\ InitAnaIdle

PushMetric(targetId, metricKey, value) ==
    /\ signals' = pushMetric(signals, targetId, metricKey, value, 0)
    /\ lastCall' = Call("pushMetric", <<targetId, metricKey>>, Num(value), createEmptyMetric)
    /\ result' = EmptyMap
    /\ window' = [window EXCEPT ![<<targetId, metricKey>>] = @ \cup {value}]
    /\ UNCHANGED <<extVars, producer, metric, tickVars, sinkVars>>

PushAggregated(targetId, metricKey, m) ==
    /\ signals' = pushAggregated(signals, targetId, metricKey, m, 0)
    /\ lastCall' = Call("pushAggregated", <<targetId, metricKey>>, Null, m)
    /\ result' = EmptyMap
    /\ window' = IF m.o = Null THEN window
                 ELSE [window EXCEPT ![<<targetId, metricKey>>] =
                                        @ \cup {Val(m.l), Val(m.h)}]
    /\ UNCHANGED <<extVars, producer, metric, tickVars, sinkVars>>

Harvest ==
    /\ result' = harvestResult(signals)
    /\ signals' = harvestSignals(signals)
    /\ lastCall' = Call("harvest", <<>>, Null, createEmptyMetric)
    /\ window' = [k \in Keys |-> {}]
    /\ UNCHANGED <<extVars, producer, metric, tickVars, sinkVars>>

Next ==
    \/ \E k \in Keys, value \in Values : PushMetric(k[1], k[2], value)
    \/ \E k \in Keys, m \in IncomingMetrics : PushAggregated(k[1], k[2], m)
    \/ Harvest

Spec == Init /\ [][Next]_vars

----------------------------------------------------------------------------
(* Claims about the Metric and the signal channel                          *)

AllUnset(m) == m.o = Null /\ m.h = Null /\ m.l = Null /\ m.c = Null

AllSet(m) == m.o # Null /\ m.h # Null /\ m.l # Null /\ m.c # Null

Ordered(m) ==
    /\ Val(m.l) <= Val(m.o) /\ Val(m.o) <= Val(m.h)
    /\ Val(m.l) <= Val(m.c) /\ Val(m.c) <= Val(m.h)

\* C1: after every update call, whatever the sample and whichever producer's
\* routine is used, the Metric is empty with all four fields unset or non-empty
\* with all four set, and then low <= open <= high and low <= close <= high.
C1_MetricInvariant ==
    lastCall.op = "update" => (AllUnset(metric) \/ (AllSet(metric) /\ Ordered(metric)))

\* an audio buffer that has seen a sample below its open and closed below its high
C1_Witness ==
    /\ lastCall.op = "update"
    /\ producer = "audio"
    /\ Val(metric.l) < Val(metric.o)
    /\ Val(metric.c) < Val(metric.h)

\* C2: no pushed sample is lost and none is reported twice: the harvest that
\* follows a push to key k returns for k a Metric covering the pushed value, and a
\* harvest reports for k only what was pushed to k since the previous harvest.
C2_NoSampleLost ==
    [][lastCall'.op = "harvest" =>
        /\ \A k \in Keys : \A v \in window[k] :
              /\ k \in DOMAIN result'
              /\ Val(result'[k].l) <= v
              /\ v <= Val(result'[k].h)
        /\ \A k \in DOMAIN result' :
              /\ k \in Keys
              /\ {Val(result'[k].l), Val(result'[k].h)} \subseteq window[k]]_vars

\* C3: harvest returns exactly the buffers that are non-empty when it is called,
\* leaves every buffer empty, and a harvest directly after a harvest returns the
\* empty map.
C3_HarvestDrains ==
    [][lastCall'.op = "harvest" =>
        /\ DOMAIN result' = {parseCompositeKey(ck) : ck \in nonEmptyKeys(signals)}
        /\ \A ck \in nonEmptyKeys(signals) :
              result'[parseCompositeKey(ck)] = signals[ck].buffer
        /\ DOMAIN signals' = DOMAIN signals
        /\ \A ck \in DOMAIN signals' : AllUnset(signals'[ck].buffer)
        /\ (lastCall.op = "harvest" => result' = EmptyMap)]_vars

\* a harvest that found every registered buffer already drained by the one before
C3_Witness ==
    /\ lastCall.op = "harvest"
    /\ result = EmptyMap
    /\ DOMAIN signals # {}

----------------------------------------------------------------------------
(* Frames and the buffered transport of VirtualChannelManager              *)

\* harvested[targetId] : metricKey -> Metric, from the pair-indexed harvest result
metricsOf(res, targetId) ==
    [mk \in {p[2] : p \in {q \in DOMAIN res : q[1] = targetId}} |-> res[<<targetId, mk>>]]

harvestTargets(res) == {p[1] : p \in DOMAIN res}

\* the payload flushStandalone builds (JSON.stringify is deterministic: the
\* string is identified with the frame it encodes)
standaloneFrame(timestamp, res) ==
    [ts |-> timestamp,
     sources |-> <<"virtual">>,
     data |-> [t \in harvestTargets(res) |-> [a |-> metricsOf(res, t)]]]

sendPendingNoEvict(pending, tun, payloadStr) ==
    IF tun THEN <<>> ELSE Append(pending, payloadStr)

\* pendingFrames after send(payloadStr)
sendPending(pending, tun, payloadStr) ==
    IF tun THEN <<>>
    ELSE IF Len(pending) >= MAX_PENDING
         THEN Append(Tail(pending), payloadStr)
         ELSE Append(pending, payloadStr)

\* send that hands the tunnel the current frame before the backlog
sendDeliveredNewestFirst(del, pending, tun, payloadStr) ==
    IF tun THEN (del \o <<payloadStr>>) \o pending ELSE del

\* what the tunnel has received after send(payloadStr)
sendDelivered(del, pending, tun, payloadStr) ==
    IF tun THEN (del \o pending) \o <<payloadStr>> ELSE del

\* the frame the ticker specifications send: one sample of one signal
FlushTarget == idA
FlushMetric == idC

----------------------------------------------------------------------------
(* SpecStandalone: the standalone ticker of VirtualChannelManager          *)

InitStandalone == Init

AdvanceTime ==
    /\ now < MaxTime
    /\ now' = now + TimeStep
    /\ UNCHANGED <<extVars, producer, metric, chanVars, lastFlushTime, isActive, rafId, scheduled, sinkVars>>

AttachTunnel ==
    /\ ~tunnel
    /\ tunnel' = TRUE
    /\ UNCHANGED <<extVars, producer, metric, chanVars, tickVars, pendingFrames, delivered, assembled>>

DetachTunnel ==
    /\ tunnel
    /\ tunnel' = FALSE
    /\ UNCHANGED <<extVars, producer, metric, chanVars, tickVars, pendingFrames, delivered, assembled>>

\* a producer pushes one sample at the current time
PushSample ==
    /\ signals' = pushMetric(signals, FlushTarget, FlushMetric, FlushValue, now)
    /\ lastCall' = Call("pushMetric", <<FlushTarget, FlushMetric>>, Num(FlushValue), createEmptyMetric)
    /\ result' = EmptyMap
    /\ window' = [window EXCEPT ![<<FlushTarget, FlushMetric>>] = @ \cup {FlushValue}]
    /\ UNCHANGED <<extVars, producer, metric, tickVars, sinkVars>>

\* flushStandalone(timestamp): harvest, return if nothing was harvested, else send
FlushStandalone(timestamp) ==
    LET harvested == harvestResult(signals)
        payload == standaloneFrame(timestamp, harvested)
    IN  /\ signals' = harvestSignals(signals)
        /\ result' = harvested
        /\ lastCall' = Call("harvest", <<>>, Null, createEmptyMetric)
        /\ window' = [k \in Keys |-> {}]
        /\ IF DOMAIN harvested = {}
           THEN UNCHANGED <<pendingFrames, delivered, assembled>>
           ELSE /\ assembled' = Append(assembled, payload)
                /\ pendingFrames' = sendPending(pendingFrames, tunnel, payload)
                /\ delivered' = sendDelivered(delivered, pendingFrames, tunnel, payload)

\* the body of tick() with isActive true; the callback re-requests itself
TickBody ==
    /\ IF now - lastFlushTime >= FLUSH_INTERVAL_MS
       THEN /\ FlushStandalone(now)
            /\ lastFlushTime' = now
       ELSE UNCHANGED <<chanVars, lastFlushTime, pendingFrames, delivered, assembled>>
    /\ rafId' = Num(1)

StartStandalone ==
    /\ ~isActive
    /\ isActive' = TRUE
    /\ lastFlushTime' = now
    /\ rafId' = Num(1)
    /\ scheduled' = scheduled + 1
    /\ UNCHANGED <<extVars, producer, metric, chanVars, now, sinkVars>>

StopStandalone ==
    /\ isActive' = FALSE
    /\ rafId' = Null
    /\ scheduled' = IF rafId # Null /\ scheduled > 0 THEN scheduled - 1 ELSE scheduled
    /\ UNCHANGED <<extVars, producer, metric, chanVars, now, lastFlushTime, sinkVars>>

\* the animation-frame callback runs tick()
TickCallback ==
    /\ scheduled > 0
    /\ IF isActive
       THEN /\ TickBody
            /\ scheduled' = scheduled
       ELSE /\ scheduled' = scheduled - 1
            /\ UNCHANGED <<chanVars, lastFlushTime, rafId, pendingFrames, delivered, assembled>>
    /\ UNCHANGED <<extVars, producer, metric, now, isActive, tunnel>>

NextStandalone ==
    \/ AdvanceTime
    \/ AttachTunnel
    \/ DetachTunnel
    \/ PushSample
    \/ StartStandalone
    \/ StopStandalone
    \/ TickCallback

SpecStandalone == InitStandalone /\ [][NextStandalone]_vars

\* animation-frame callbacks that were requested eventually run, and time passes
FairStandalone ==
    SpecStandalone /\ WF_vars(TickCallback) /\ WF_vars(AdvanceTime)

----------------------------------------------------------------------------
(* Claims about the standalone ticker                                      *)

\* C7: whenever the sink is available while frames are pending (and the ticker
\* runs, with a flush interval still ahead), the pending queue is eventually
\* emptied into the sink - unless the sink goes away or the ticker is stopped.
C7_PendingEventuallyFlushed ==
    (tunnel /\ isActive /\ pendingFrames # <<>> /\ now + FLUSH_INTERVAL_MS <= MaxTime)
        ~> (pendingFrames = <<>> \/ ~tunnel \/ ~isActive)

----------------------------------------------------------------------------
(* SpecSend: send() called with one frame per flush interval, the tunnel    *)
(* attaching and detaching at any time.                                     *)

InitSend == Init

\* send(payloadStr) for the frame serialized at the current time; send treats the
\* string as opaque, so the payload is identified by the time it was built
SendFrame ==
    /\ now < MaxSendFrames * FLUSH_INTERVAL_MS
    /\ LET payloadStr == now
       IN  /\ assembled' = Append(assembled, payloadStr)
           /\ pendingFrames' = sendPending(pendingFrames, tunnel, payloadStr)
           /\ delivered' = sendDelivered(delivered, pendingFrames, tunnel, payloadStr)
    /\ now' = now + FLUSH_INTERVAL_MS
    /\ UNCHANGED <<extVars, producer, metric, chanVars, lastFlushTime, isActive, rafId, scheduled, tunnel>>

NextSend ==
    \/ SendFrame
    \/ AttachTunnel
    \/ DetachTunnel

SpecSend == InitSend /\ [][NextSend]_vars

----------------------------------------------------------------------------
(* Claims about the pending queue                                          *)

\* index in `assembled` of the last frame that reached the sink (0 if none),
\* searched from the most recent frame backwards
lastDeliveredIdx ==
    LET ds == {delivered[i] : i \in 1..Len(delivered)}
        n == Len(assembled)
    IN  IF \A i \in 1..n : assembled[i] \notin ds THEN 0
        ELSE n - (CHOOSE k \in 0..(n - 1) :
                    /\ assembled[n - k] \in ds
                    /\ \A j \in 0..(k - 1) : assembled[n - j] \notin ds)

\* the frames sent since the sink was last available
sentWhileUnavailable == SubSeq(assembled, lastDeliveredIdx + 1, Len(assembled))

\* C6: the pending queue never holds more than 200 frames, and it is always the
\* most recent min(n, 200) of the n frames sent while the sink was unavailable
\* (a frame arriving at a full queue evicts exactly the oldest one).
C6_PendingBounded ==
    /\ Len(pendingFrames) <= MAX_PENDING
    /\ LET sent == sentWhileUnavailable
           n == Len(sent)
       IN  pendingFrames = SubSeq(sent, n - Min2(n, MAX_PENDING) + 1, n)

\* more than 200 frames were sent while the sink was unavailable
C6_Witness ==
    LET sent == sentWhileUnavailable
    IN  /\ Len(sent) > MAX_PENDING
        /\ Len(pendingFrames) = MAX_PENDING
        /\ pendingFrames[1] # sent[1]

----------------------------------------------------------------------------
(* DOMTelemetryRuntime: registry, sampling tick and unified flush.         *)
(* Elements carry no data-vt-watch list. In SpecUnified the ticker         *)
(* variables (isActive, rafId, lastFlushTime, scheduled) hold the fields   *)
(* of DOMTelemetryRuntime, which drives the channel's harvest itself.      *)

DomWeight == 1      \* visual weights are 0..DomWeight
MaxDomTime == 200   \* the clock of the unified specification stops here

\* data-vt-id values of the monitored elements
DomIds == {idA}

domCreateEmptyMetric == [o |-> 0 - 1, h |-> 0 - 1, l |-> 0 - 1, c |-> 0 - 1]

domUpdateMetric(m, value) ==
    IF m.o = 0 - 1
    THEN [o |-> value, h |-> value, l |-> value, c |-> value]
    ELSE [o |-> m.o,
          h |-> IF value > m.h THEN value ELSE m.h,
          l |-> IF value < m.l THEN value ELSE m.l,
          c |-> value]

\* an element is its data-vt-id and the identity of its DOM node
connectedNodes(doc) == {doc[i].node : i \in 1..Len(doc)}
documentIds(doc) == {doc[i].id : i \in 1..Len(doc)}
registryIds(reg) == {reg[i].id : i \in 1..Len(reg)}

\* a node identity no element of the document or the registry has
freshNode(doc, reg) ==
    LET used == connectedNodes(doc) \cup {reg[i].element : i \in 1..Len(reg)}
        free == (1..(Cardinality(used) + 1)) \ used
    IN  CHOOSE n \in free : \A m \in free : n <= m

tryRegister(reg, el) ==
    IF el.id \in registryIds(reg) THEN reg
    ELSE Append(reg, [id |-> el.id, element |-> el.node, lastWeight |-> 0,
                      bufferWeight |-> domCreateEmptyMetric,
                      bufferRank |-> domCreateEmptyMetric])

tryUnregister(reg, el) == SelectSeq(reg, LAMBDA e : e.id # el.id)

RECURSIVE scanAndRegister(_, _)
scanAndRegister(reg, els) ==
    IF els = <<>> THEN reg
    ELSE scanAndRegister(tryRegister(reg, Head(els)), Tail(els))

\* rank = index + 1 in the snapshot sorted by weight, heaviest first (the sort
\* is stable: equal weights keep registry order)
rankOf(snap, i) ==
    1 + Cardinality({j \in 1..Len(snap) :
                        \/ snap[j].weight > snap[i].weight
                        \/ snap[j].weight = snap[i].weight /\ j < i})

\* tick(), phases 1-3: drop disconnected entries, sample, rank, aggregate
sampleRegistry(reg, doc, weightOf) ==
    LET live == SelectSeq(reg, LAMBDA e : e.element \in connectedNodes(doc))
        snap == [i \in 1..Len(live) |-> [id |-> live[i].id, weight |-> weightOf[live[i].id]]]
    IN  [i \in 1..Len(live) |->
            [live[i] EXCEPT !.lastWeight = snap[i].weight,
                            !.bufferWeight = domUpdateMetric(@, snap[i].weight),
                            !.bufferRank = domUpdateMetric(@, rankOf(snap, i))]]

reportedIds(reg) == {reg[i].id : i \in {j \in 1..Len(reg) : reg[j].bufferWeight.o # 0 - 1}}

\* the payload flushUnifiedTelemetry builds (timestamps are whole ms, so
\* Math.floor leaves them as they are)
unifiedFrame(timestamp, reg, res) ==
    LET dom == reportedIds(reg)
        virt == harvestTargets(res)
        ctx(id) == reg[CHOOSE i \in 1..Len(reg) : reg[i].id = id]
    IN  [ts |-> timestamp,
         dur |-> FLUSH_INTERVAL_MS,
         sources |-> (IF dom # {} THEN <<"dom">> ELSE <<>>)
                        \o (IF virt # {} THEN <<"virtual">> ELSE <<>>),
         data |-> [id \in dom \cup virt |->
                    IF id \in dom /\ id \in virt
                    THEN [w |-> ctx(id).bufferWeight, r |-> ctx(id).bufferRank,
                          a |-> metricsOf(res, id)]
                    ELSE IF id \in dom
                    THEN [w |-> ctx(id).bufferWeight, r |-> ctx(id).bufferRank]
                    ELSE [a |-> metricsOf(res, id)]]]

\* the registry after the flush: reported buffers are reset
flushRegistry(reg) ==
    [i \in 1..Len(reg) |->
        IF reg[i].bufferWeight.o # 0 - 1
        THEN [reg[i] EXCEPT !.bufferWeight = domCreateEmptyMetric,
                            !.bufferRank = domCreateEmptyMetric]
        ELSE reg[i]]

----------------------------------------------------------------------------
(* SpecUnified: DOMTelemetryRuntime sampling the document and flushing DOM  *)
(* and channel data in one frame.                                           *)

InitUnified == Init

Weights == [DomIds -> 0..DomWeight]

\* flushUnifiedTelemetry sending the payload whether or not it has data
FlushUnifiedTelemetryNoGuard(reg, timestamp) ==
    LET harvested == harvestResult(signals)
        payload == unifiedFrame(timestamp, reg, harvested)
        hasData == TRUE
    IN  /\ registry' = flushRegistry(reg)
        /\ signals' = harvestSignals(signals)
        /\ result' = harvested
        /\ lastCall' = Call("harvest", <<>>, Null, createEmptyMetric)
        /\ window' = [k \in Keys |-> {}]
        /\ assembled' = IF hasData THEN Append(assembled, payload) ELSE assembled
        /\ delivered' = IF hasData /\ tunnel THEN Append(delivered, payload) ELSE delivered

\* flushUnifiedTelemetry(timestamp) on the registry as sampled by this tick
FlushUnifiedTelemetry(reg, timestamp) ==
    LET harvested == harvestResult(signals)
        payload == unifiedFrame(timestamp, reg, harvested)
        hasData == reportedIds(reg) # {} \/ harvestTargets(harvested) # {}
    IN  /\ registry' = flushRegistry(reg)
        /\ signals' = harvestSignals(signals)
        /\ result' = harvested
        /\ lastCall' = Call("harvest", <<>>, Null, createEmptyMetric)
        /\ window' = [k \in Keys |-> {}]
        /\ assembled' = IF hasData THEN Append(assembled, payload) ELSE assembled
        /\ delivered' = IF hasData /\ tunnel THEN Append(delivered, payload) ELSE delivered

DomAdvanceTime ==
    /\ now < MaxDomTime
    /\ now' = now + TimeStep
    /\ UNCHANGED <<extVars, producer, metric, chanVars, lastFlushTime, isActive, rafId, scheduled, sinkVars>>

\* start(): scan the document, observe it, run the first tick
DomStart(weightOf) ==
    /\ ~isActive
    /\ isActive' = TRUE
    /\ registry' = sampleRegistry(scanAndRegister(registry, document), document, weightOf)
    /\ lastFlushTime' = now
    /\ rafId' = Num(1)
    /\ scheduled' = scheduled + 1
    /\ UNCHANGED <<newVars, topoVars, judgeVars, anaVars, document, producer, metric, chanVars, now, sinkVars>>

DomStop ==
    /\ isActive' = FALSE
    /\ rafId' = Null
    /\ scheduled' = IF rafId # Null /\ scheduled > 0 THEN scheduled - 1 ELSE scheduled
    /\ UNCHANGED <<extVars, producer, metric, chanVars, now, lastFlushTime, sinkVars>>

\* the animation-frame callback runs tick()
DomTickCallback(weightOf) ==
    /\ scheduled > 0
    /\ IF isActive
       THEN /\ LET sampled == sampleRegistry(registry, document, weightOf)
               IN  IF now - lastFlushTime >= FLUSH_INTERVAL_MS
                   THEN /\ FlushUnifiedTelemetry(sampled, now)
                        /\ lastFlushTime' = now
                   ELSE /\ registry' = sampled
                        /\ UNCHANGED <<chanVars, lastFlushTime, delivered, assembled>>
            /\ rafId' = Num(1)
            /\ scheduled' = scheduled
       ELSE /\ scheduled' = scheduled - 1
            /\ UNCHANGED <<registry, chanVars, lastFlushTime, rafId, delivered, assembled>>
    /\ UNCHANGED <<newVars, topoVars, judgeVars, anaVars, document, producer, metric, now, isActive,
                   tunnel, pendingFrames>>

\* an element with data-vt-id = id is attached; the observer, when observing,
\* registers it
AddElement(id) ==
    /\ id \notin documentIds(document)
    /\ LET el == [id |-> id, node |-> freshNode(document, registry)]
       IN  /\ document' = Append(document, el)
           /\ registry' = IF isActive THEN tryRegister(registry, el) ELSE registry
    /\ UNCHANGED <<newVars, topoVars, judgeVars, anaVars, producer, metric, chanVars, tickVars, sinkVars>>

\* the element is detached; the observer, when observing, unregisters it
RemoveElement(id) ==
    /\ id \in documentIds(document)
    /\ LET el == document[CHOOSE i \in 1..Len(document) : document[i].id = id]
       IN  /\ document' = SelectSeq(document, LAMBDA e : e.id # id)
           /\ registry' = IF isActive THEN tryUnregister(registry, el) ELSE registry
    /\ UNCHANGED <<newVars, topoVars, judgeVars, anaVars, producer, metric, chanVars, tickVars, sinkVars>>

NextUnified ==
    \/ DomAdvanceTime
    \/ AttachTunnel
    \/ DetachTunnel
    \/ PushSample
    \/ \E weightOf \in Weights : DomStart(weightOf)
    \/ DomStop
    \/ \E weightOf \in Weights : DomTickCallback(weightOf)
    \/ \E id \in DomIds : AddElement(id)
    \/ \E id \in DomIds : RemoveElement(id)

SpecUnified == InitUnified /\ [][NextUnified]_vars

----------------------------------------------------------------------------
(* Claims about the flush paths                                            *)

framesOf(seq) == {seq[i] : i \in 1..Len(seq)}

\* C5: every frame a flush path has assembled was handed to the sink or is in
\* the pending queue, unless drop-oldest overflow evicted it (which takes
\* MAX_PENDING later frames).
C5_FramesQueuedNotDropped ==
    \A i \in 1..Len(assembled) :
        \/ assembled[i] \in framesOf(delivered)
        \/ assembled[i] \in framesOf(pendingFrames)
        \/ i + MAX_PENDING <= Len(assembled)

----------------------------------------------------------------------------
(* TopologyChecker: check(frames) over one registered contract, one frame   *)
(* of the batch per step.                                                   *)

MaxFrames == 4      \* frames in the batch
MaxRank == 2        \* ranks are 1..MaxRank
MaxTolerance == 2   \* tolerance.frames is 0..MaxTolerance
TopMargin == 2      \* the tolerance.margin of contracts that set one

\* element ids: the contract expects idHero above idPanel; idModal activates it
idHero == "hero"
idPanel == "panel"
idModal == "modal"
TopoIds == {idHero, idPanel, idModal}

ContractTypes == {"STRICT_ORDER", "PARTIAL_ORDER", "TOP_N", "NEVER_BELOW"}

\* activeWhen is <<>> (absent) or <<elementExists>>
Contracts ==
    [type : ContractTypes,
     expected : {<<idHero, idPanel>>},
     tolerance : [frames : 0..MaxTolerance, margin : {Null, Num(TopMargin)}],
     activeWhen : {<<>>, <<idModal>>}]

\* a frame gives, per element, data[id].r.c: null when the element or its r is
\* missing from the frame, otherwise -1 or a rank
Frames == [TopoIds -> {Null, Num(0 - 1)} \cup {Num(k) : k \in 1..MaxRank}]

extractRanks(frame) ==
    [id \in {i \in TopoIds : frame[i] # Null /\ Val(frame[i]) # 0 - 1} |-> Val(frame[id])]

\* checkContract with STRICT_ORDER accepting equal ranks of neighbours
checkContractNonStrict(c, ranks) ==
    LET presentIds == SelectSeq(c.expected, LAMBDA id : id \in DOMAIN ranks)
        n == Len(presentIds)
    IN  IF n < 2 /\ c.type # "TOP_N" THEN FALSE
        ELSE CASE c.type = "STRICT_ORDER" ->
                    \E i \in 1..(n - 1) : ranks[presentIds[i]] > ranks[presentIds[i + 1]]
               [] c.type \in {"PARTIAL_ORDER", "NEVER_BELOW"} ->
                    \E i \in 1..(n - 1) : \E j \in (i + 1)..n :
                        ranks[presentIds[i]] >= ranks[presentIds[j]]
               [] c.type = "TOP_N" ->
                    LET target == c.expected[1]
                        limit == IF c.tolerance.margin = Null \/ Val(c.tolerance.margin) = 0
                                 THEN 1 ELSE Val(c.tolerance.margin)
                    IN  IF target \notin DOMAIN ranks THEN FALSE
                        ELSE ranks[target] > limit
               [] OTHER -> FALSE

checkContract(c, ranks) ==
    LET presentIds == SelectSeq(c.expected, LAMBDA id : id \in DOMAIN ranks)
        n == Len(presentIds)
    IN  IF n < 2 /\ c.type # "TOP_N" THEN FALSE
        ELSE CASE c.type = "STRICT_ORDER" ->
                    \E i \in 1..(n - 1) : ranks[presentIds[i]] >= ranks[presentIds[i + 1]]
               [] c.type \in {"PARTIAL_ORDER", "NEVER_BELOW"} ->
                    \E i \in 1..(n - 1) : \E j \in (i + 1)..n :
                        ranks[presentIds[i]] >= ranks[presentIds[j]]
               [] c.type = "TOP_N" ->
                    LET target == c.expected[1]
                        limit == IF c.tolerance.margin = Null \/ Val(c.tolerance.margin) = 0
                                 THEN 1 ELSE Val(c.tolerance.margin)
                    IN  IF target \notin DOMAIN ranks THEN FALSE
                        ELSE ranks[target] > limit
               [] OTHER -> FALSE

\* whether the contract is inactive, violated or complied with in a frame
frameKind(c, ranks) ==
    IF c.activeWhen # <<>> /\ c.activeWhen[1] \notin DOMAIN ranks THEN "inactive"
    ELSE IF checkContract(c, ranks) THEN "violating"
    ELSE "compliant"

InitTopo ==
    /\ producer = "channel"
    /\ metric = createEmptyMetric
    /\ signals = EmptyMap
    /\ lastCall = NoCall
    /\ result = EmptyMap
    /\ window = [k \in Keys |-> {}]
    /\ now = 0
    /\ lastFlushTime = 0
    /\ isActive = FALSE
    /\ rafId = Null
    /\ scheduled = 0
    /\ tunnel = FALSE
    /\ pendingFrames = <<>>
    /\ delivered = <<>>
    /\ assembled = <<>>
    /\ InitDom /\ InitNewIdle /\ InitJudgeIdle /\ InitAnaIdle
    /\ contract \in Contracts
    /\ frameIdx = 0
    /\ violationStreaks = 0
    /\ violations = <<>>
    /\ frameKinds = <<>>
    /\ frameWeight = Null
    /\ lastRanks = EmptyMap

\* data[idModal].w.c of a frame: null when the element or its w is missing
\* from the frame, otherwise -1 (no sample), 0 or a positive weight
ModalWeights == {Null, Num(0 - 1), Num(0), Num(1)}

\* the body of frames.forEach for the frame at index frameIdx; frame holds
\* the r.c of every element and weight the w.c of idModal, which check
\* never reads
CheckFrame(frame, weight) ==
    LET rankMap == extractRanks(frame)
    IN  /\ frameIdx < MaxFrames
        /\ frameIdx' = frameIdx + 1
        /\ frameKinds' = Append(frameKinds, frameKind(contract, rankMap))
        /\ frameWeight' = weight
        /\ IF DOMAIN rankMap = {}
           THEN UNCHANGED <<violationStreaks, violations>>
           ELSE IF contract.activeWhen # <<>> /\ contract.activeWhen[1] \notin DOMAIN rankMap
           THEN /\ violationStreaks' = 0
                /\ UNCHANGED violations
           ELSE IF checkContract(contract, rankMap)
           THEN LET streak == violationStreaks + 1
                IN  /\ violationStreaks' = streak
                    /\ violations' = IF streak > contract.tolerance.frames
                                     THEN Append(violations, frameIdx)
                                     ELSE violations
           ELSE /\ violationStreaks' = 0
                /\ UNCHANGED violations
        /\ UNCHANGED <<newVars, domVars, judgeVars, anaVars, contract, producer, metric, chanVars, tickVars, sinkVars>>

NextTopo ==
    \E frame \in Frames : \E weight \in ModalWeights :
        CheckFrame(frame, weight) /\ UNCHANGED lastRanks

SpecTopo == InitTopo /\ [][NextTopo]_vars

----------------------------------------------------------------------------
(* checkContract on its own: check(frames) over a batch of one frame, with  *)
(* three expected entities and ranks up to MaxOrderRank.                    *)

MaxOrderRank == 3   \* ranks are 1..MaxOrderRank

OrderContracts ==
    [type : ContractTypes,
     expected : {<<idHero, idPanel>>, <<idHero, idPanel, idModal>>},
     tolerance : [frames : {0}, margin : {Null, Num(1)}],
     activeWhen : {<<>>, <<idModal>>}]

OrderFrames == [TopoIds -> {Null, Num(0 - 1)} \cup {Num(k) : k \in 1..MaxOrderRank}]

InitContract ==
    /\ producer = "channel"
    /\ metric = createEmptyMetric
    /\ signals = EmptyMap
    /\ lastCall = NoCall
    /\ result = EmptyMap
    /\ window = [k \in Keys |-> {}]
    /\ now = 0
    /\ lastFlushTime = 0
    /\ isActive = FALSE
    /\ rafId = Null
    /\ scheduled = 0
    /\ tunnel = FALSE
    /\ pendingFrames = <<>>
    /\ delivered = <<>>
    /\ assembled = <<>>
    /\ InitDom /\ InitNewIdle /\ InitJudgeIdle /\ InitAnaIdle
    /\ contract \in OrderContracts
    /\ frameIdx = 0
    /\ violationStreaks = 0
    /\ violations = <<>>
    /\ frameKinds = <<>>
    /\ frameWeight = Null
    /\ lastRanks = EmptyMap

\* check([frame]): extractRanks, then checkContract on the rank map
CheckContract(frame, weight) ==
    /\ frameIdx = 0
    /\ CheckFrame(frame, weight)
    /\ lastRanks' = extractRanks(frame)

NextContract == \E frame \in OrderFrames : \E weight \in ModalWeights : CheckContract(frame, weight)

SpecContract == InitContract /\ [][NextContract]_vars

----------------------------------------------------------------------------
(* Claims about the topology check                                         *)

\* length of the run of consecutive violating frames that ends at frame i
runLength(kinds, i) ==
    LET stops == {0} \cup {j \in 1..i : kinds[j] # "violating"}
    IN  i - (CHOOSE s \in stops : \A t \in stops : t <= s)

\* C8: a violation is recorded for a frame exactly when the run of consecutive
\* violating frames ending there is longer than tolerance.frames, so a run of k
\* violating frames records max(0, k - tolerance.frames) violations.
C8_ToleranceRun ==
    LET over == {i \in 1..Len(frameKinds) :
                    runLength(frameKinds, i) > contract.tolerance.frames}
    IN  /\ {violations[j] : j \in 1..Len(violations)} = {i - 1 : i \in over}
        /\ Len(violations) = Cardinality(over)

\* C9: after a frame in which the contract is compliant or inactive (frames with
\* no ranked entity included) the streak counter is 0.
C9_StreakReset ==
    (frameKinds # <<>> /\ frameKinds[Len(frameKinds)] # "violating")
        => violationStreaks = 0

\* whether the entity that activeWhen names has, in the frame processed last,
\* a weight metric that is present and positive
weightPositive == frameWeight # Null /\ Val(frameWeight) > 0

\* C26: a contract with activeWhen is evaluated for a frame exactly when the
\* named entity's weight is present and positive in that frame; a frame where
\* it is not is skipped, records no violation and leaves the streak at 0.
C26_ActiveWhen ==
    (contract.activeWhen # <<>> /\ frameKinds # <<>>) =>
        /\ (frameKinds[Len(frameKinds)] # "inactive") <=> weightPositive
        /\ ~weightPositive =>
                /\ \A j \in 1..Len(violations) : violations[j] # frameIdx - 1
                /\ violationStreaks = 0

\* the expected entities that are in the rank map, in expected order
presentIds == SelectSeq(contract.expected, LAMBDA id : id \in DOMAIN lastRanks)

\* tolerance.margin, 0 when the contract sets none
marginOf(c) == IF c.tolerance.margin = Null THEN 0 ELSE Val(c.tolerance.margin)

\* C27: a PARTIAL_ORDER or NEVER_BELOW contract is violated in a frame exactly
\* when some earlier-expected present entity has a rank greater than a
\* later-expected present entity's rank plus the margin; equal ranks and
\* differences within the margin are compliant.
C27_PartialOrder ==
    (contract.type \in {"PARTIAL_ORDER", "NEVER_BELOW"}
        /\ frameKinds # <<>> /\ frameKinds[1] # "inactive") =>
        ((frameKinds[1] = "violating") <=>
            \E i \in 1..Len(presentIds) : \E j \in (i + 1)..Len(presentIds) :
                lastRanks[presentIds[i]] > lastRanks[presentIds[j]] + marginOf(contract))

\* the arrangements of the present expected entities in ascending rank
rankSorted ==
    LET n == Len(presentIds)
    IN  {[i \in 1..n |-> presentIds[p[i]]] : p \in
            {q \in Permutations1(n) :
                \A i \in 1..(n - 1) :
                    lastRanks[presentIds[q[i]]] <= lastRanks[presentIds[q[i + 1]]]}}

\* C28: a STRICT_ORDER contract is complied with in a frame exactly when fewer
\* than 2 expected entities have a rank, or sorting the present expected
\* entities by rank gives their expected relative order and no other.
C28_StrictOrder ==
    (contract.type = "STRICT_ORDER" /\ frameKinds # <<>> /\ frameKinds[1] # "inactive") =>
        ((frameKinds[1] = "compliant") <=>
            (Len(presentIds) < 2 \/ rankSorted = {presentIds}))

\* three expected entities in strictly ascending rank, found compliant
C28_Witness ==
    /\ contract.type = "STRICT_ORDER"
    /\ Len(presentIds) = 3
    /\ frameKinds = <<"compliant">>

\* entities whose r.c is -1 are left out of the rank map, and one present
\* entity is vacuously compliant
StrictOrderVacuous ==
    /\ contract.type = "STRICT_ORDER"
    /\ Len(presentIds) = 1
    /\ frameKinds = <<"compliant">>

----------------------------------------------------------------------------
(* Interval verdict: judgeInterval (Go) and deriveVerdict (TypeScript).     *)
(* Variances are counted in thousandths, correlations in tenths.            *)

MaxInputVariance == 11    \* input variances are 0..MaxInputVariance (x 0.001)
MaxOutputVariance == 2    \* output variances are 0..MaxOutputVariance (x 0.001)
MaxCorrelation == 10      \* correlations are -MaxCorrelation..MaxCorrelation (x 0.1)

\* NewAnalysisEngine: 0.01 and 0.001
ThresholdInputVar == 10
ThresholdOutputVar == 1

\* MarkerAlignmentAnalyzer default config.thresholds: 0.4, 0.01, 0.001
thresholds == [correlation |-> 4, inputVariance |-> 10, outputVariance |-> 1]

Abs(x) == IF x < 0 THEN 0 - x ELSE x

\* the Verdict judgeInterval stores in d
judgeInterval(d) ==
    LET hasInput == d.InputVariance > ThresholdInputVar
        hasOutput == d.OutputVariance > ThresholdOutputVar
    IN  IF hasInput /\ ~hasOutput THEN "NO_RESPONSE"
        ELSE IF ~hasInput /\ hasOutput THEN "AUTONOMOUS"
        ELSE IF ~hasInput /\ ~hasOutput THEN "IDLE"
        ELSE "HEALTHY"

\* the verdict deriveVerdict returns
deriveVerdict(inVar, outVar, corr) ==
    LET hasInput == inVar > thresholds.inputVariance
        hasOutput == outVar > thresholds.outputVariance
        isCorrelated == Abs(corr) > thresholds.correlation
    IN  IF ~hasInput /\ ~hasOutput THEN "IDLE"
        ELSE IF hasInput /\ ~hasOutput THEN "NO_RESPONSE"
        ELSE IF ~hasInput /\ hasOutput THEN "AUTONOMOUS"
        ELSE IF isCorrelated THEN "HEALTHY"
        ELSE "CHAOTIC"

\* the statistics of one interval, not yet judged by either implementation
InitJudge ==
    /\ producer = "channel"
    /\ metric = createEmptyMetric
    /\ signals = EmptyMap
    /\ lastCall = NoCall
    /\ result = EmptyMap
    /\ window = [k \in Keys |-> {}]
    /\ now = 0
    /\ lastFlushTime = 0
    /\ isActive = FALSE
    /\ rafId = Null
    /\ scheduled = 0
    /\ tunnel = FALSE
    /\ pendingFrames = <<>>
    /\ delivered = <<>>
    /\ assembled = <<>>
    /\ InitDom /\ InitNewIdle /\ InitTopoIdle /\ InitAnaIdle
    /\ \E inVar \in 0..MaxInputVariance, outVar \in 0..MaxOutputVariance,
          corr \in (0 - MaxCorrelation)..MaxCorrelation :
            /\ diagnosis = [InputVariance |-> inVar, OutputVariance |-> outVar,
                            Correlation |-> corr, Verdict |-> ""]
            /\ alignment = [inVar |-> inVar, outVar |-> outVar, corr |-> corr,
                            verdict |-> ""]

JudgeInterval ==
    /\ diagnosis.Verdict = ""
    /\ diagnosis' = [diagnosis EXCEPT !.Verdict = judgeInterval(diagnosis)]
    /\ UNCHANGED <<newVars, anaVars, domVars, topoVars, alignment, producer, metric, chanVars, tickVars, sinkVars>>

DeriveVerdict ==
    /\ alignment.verdict = ""
    /\ alignment' = [alignment EXCEPT
                        !.verdict = deriveVerdict(alignment.inVar, alignment.outVar, alignment.corr)]
    /\ UNCHANGED <<newVars, anaVars, domVars, topoVars, diagnosis, producer, metric, chanVars, tickVars, sinkVars>>

NextJudge ==
    \/ JudgeInterval
    \/ DeriveVerdict

SpecJudge == InitJudge /\ [][NextJudge]_vars

----------------------------------------------------------------------------
(* Claims about the interval verdict                                       *)

\* the verdict of the decision table, for given thresholds
DecisionTable(inVar, outVar, corr, inT, outT, corrT) ==
    LET hasInput == inVar > inT
        hasOutput == outVar > outT
        correlated == Abs(corr) > corrT
    IN  CASE ~hasInput /\ ~hasOutput -> "IDLE"
          [] hasInput /\ ~hasOutput -> "NO_RESPONSE"
          [] ~hasInput /\ hasOutput -> "AUTONOMOUS"
          [] hasInput /\ hasOutput /\ correlated -> "HEALTHY"
          [] hasInput /\ hasOutput /\ ~correlated -> "CHAOTIC"

\* C10: every verdict either implementation assigns is the one the decision
\* table gives for the interval's (inputVariance, outputVariance, correlation).
C10_DecisionTable ==
    /\ diagnosis.Verdict # "" =>
          diagnosis.Verdict =
              DecisionTable(diagnosis.InputVariance, diagnosis.OutputVariance,
                            diagnosis.Correlation, ThresholdInputVar,
                            ThresholdOutputVar, thresholds.correlation)
    /\ alignment.verdict # "" =>
          alignment.verdict =
              DecisionTable(alignment.inVar, alignment.outVar, alignment.corr,
                            thresholds.inputVariance, thresholds.outputVariance,
                            thresholds.correlation)

----------------------------------------------------------------------------
(* Backend analysis (analysis.go, api.go) and the client-side               *)
(* MarkerAlignmentAnalyzer. Strings that the code inspects are sequences of *)
(* characters. Audio levels are counted in hundredths, variances in         *)
(* thousandths, correlations in tenths, scores as exact fractions.          *)

MaxBatch == 3       \* frames stored for the scenario / ingested by the analyzer
MaxStream == 1      \* frames the Ingest endpoint receives
QuietPeak == 4      \* audio high of a quiet frame (x 0.01), just below the threshold
LoudPeak == 5       \* audio high of a loud frame (x 0.01), at the threshold
CursorMove == 1     \* travel of the cursor signal within an input frame

\* frame timestamps and marker fire times, in ms
FrameTimes == {10, 100, 210, 310, 350}
MarkerTimes == {10, 40, 100}

\* NewAnalysisEngine: ThresholdAudioPeak 0.05; analyzeAudioSync: window 300 ms,
\* lag threshold 200 ms; AnalyzeScenario / analyze: intervals under 50 ms skipped
ThresholdAudioPeak == 5
AudioWindowMs == 300
AudioLagMs == 200
MinIntervalMs == 50

idCursor == <<"_", "_", "c", "u", "r", "s", "o", "r", "_", "_">>
idInput == <<"_", "_", "i", "n", "p", "u", "t", "_", "_">>
idMarkers == <<"_", "_", "m", "a", "r", "k", "e", "r", "s", "_", "_">>
idAudio == <<"_", "_", "s", "y", "s", "t", "e", "m", "_", "_", "/", "a", "u", "d", "i", "o">>
idButton == <<"b", "t", "n">>
attrPeakLevel == <<"p", "e", "a", "k", "_", "l", "e", "v", "e", "l">>
attrEnergyRms == <<"e", "n", "e", "r", "g", "y", "_", "r", "m", "s">>
attrX == <<"x">>

\* marker names: one that holds a critical keyword in lower case, one that holds none
nameClick == <<"b", "t", "n", "_", "c", "l", "i", "c", "k">>
nameBoot == <<"b", "o", "o", "t">>
MarkerNames == {nameClick, nameBoot}

criticalActions ==
    <<<<"C", "O", "L", "L", "I", "S", "I", "O", "N">>,
      <<"E", "X", "P", "L", "O", "S", "I", "O", "N">>,
      <<"S", "U", "C", "C", "E", "S", "S">>,
      <<"F", "A", "I", "L">>,
      <<"C", "L", "I", "C", "K">>>>

upperCase ==
    "a" :> "A" @@ "b" :> "B" @@ "c" :> "C" @@ "d" :> "D" @@ "e" :> "E" @@ "f" :> "F" @@ "g" :> "G" @@
    "h" :> "H" @@ "i" :> "I" @@ "j" :> "J" @@ "k" :> "K" @@ "l" :> "L" @@ "m" :> "M" @@ "n" :> "N" @@
    "o" :> "O" @@ "p" :> "P" @@ "q" :> "Q" @@ "r" :> "R" @@ "s" :> "S" @@ "t" :> "T" @@ "u" :> "U" @@
    "v" :> "V" @@ "w" :> "W" @@ "x" :> "X" @@ "y" :> "Y" @@ "z" :> "Z"

\* strings.ToUpper / strings.Contains / strings.HasPrefix
ToUpper(str) == [i \in 1..Len(str) |-> IF str[i] \in DOMAIN upperCase THEN upperCase[str[i]] ELSE str[i]]

Contains(str, sub) ==
    \E i \in 0..(Len(str) - Len(sub)) : SubSeq(str, i + 1, i + Len(sub)) = sub

HasPrefix(str, pre) ==
    Len(str) >= Len(pre) /\ SubSeq(str, 1, Len(pre)) = pre

\* a Metric all of whose fields are v (one sample pushed in the window)
pointMetric(v) == [o |-> v, h |-> v, l |-> v, c |-> v]

\* ElementData: w is null or <<Metric>>; a is the attrs object as the sequence
\* of its <<name, Metric>> entries in key order (empty when absent)
markerData(name, c) == (idMarkers :> [w |-> Null, a |-> <<<<name, pointMetric(c)>>>>])
audioData(peak) == (idAudio :> [w |-> Null, a |-> <<<<attrPeakLevel, pointMetric(peak)>>>>])
cursorData ==
    (idCursor :> [w |-> Null,
                  a |-> <<<<attrX, [o |-> 0, h |-> CursorMove, l |-> 0, c |-> CursorMove]>>>>])
outputData == (idButton :> [w |-> Num([o |-> 0, h |-> 1, l |-> 0, c |-> 1]), a |-> <<>>])

\* the frames of the analysis specifications: a timestamp and one entity
FrameData ==
    {markerData(name, c) : name \in MarkerNames, c \in MarkerTimes}
        \cup {audioData(QuietPeak), audioData(LoudPeak), cursorData, outputData}

AnalysisFrames == [ts : FrameTimes, data : FrameData]

----------------------------------------------------------------------------
(* analysis.go                                                              *)

RECURSIVE SumSeq(_)
SumSeq(nums) == IF nums = <<>> THEN 0 ELSE Head(nums) + SumSeq(Tail(nums))

hasAttr(attrs, key) == \E i \in 1..Len(attrs) : attrs[i][1] = key
attrOf(attrs, key) == attrs[CHOOSE i \in 1..Len(attrs) : attrs[i][1] = key][2]

\* the Attrs of entity id in frame f; nil (no entries) when the entity is missing
attrsOf(f, id) == IF id \in DOMAIN f.data THEN f.data[id].a ELSE <<>>

\* Metric.Activity (dto.go)
Activity(m) == IF m = Null \/ m.o = 0 - 1 THEN 0 ELSE (m.h - m.l) + Abs(m.c - m.o)

\* the marker points of one frame, before sorting; int64(metric.C) of a whole
\* number of ms is that number
framePoints(f) ==
    LET a == attrsOf(f, idMarkers)
        pts == [i \in 1..Len(a) |-> [Name |-> a[i][1], Ts |-> a[i][2].c]]
    IN  SelectSeq(pts, LAMBDA p : p.Ts > 0)

RECURSIVE markerPoints(_)
markerPoints(frames) ==
    IF frames = <<>> THEN <<>>
    ELSE framePoints(Head(frames)) \o markerPoints(Tail(frames))

\* extractMarkers: Attrs is a Go map, ranged over in no particular order, and
\* sort.Slice is not stable - the result is some arrangement of the points
\* that is ascending in Ts
extractMarkers(frames) ==
    LET points == markerPoints(frames)
        n == Len(points)
    IN  {q \in {[i \in 1..n |-> points[p[i]]] : p \in Permutations1(n)} :
            \A i \in 1..n : \A j \in i..n : q[i].Ts <= q[j].Ts}

\* the audio energy stream: peak_level first, else energy_rms
audioStream(frames) ==
    LET has(f) == hasAttr(attrsOf(f, idAudio), attrPeakLevel)
                    \/ hasAttr(attrsOf(f, idAudio), attrEnergyRms)
        with == SelectSeq(frames, has)
    IN  [i \in 1..Len(with) |->
            LET a == attrsOf(with[i], idAudio)
            IN  [ts |-> with[i].ts,
                 peak |-> IF hasAttr(a, attrPeakLevel) THEN attrOf(a, attrPeakLevel).h
                          ELSE attrOf(a, attrEnergyRms).h]]

isCritical(name) ==
    \E k \in 1..Len(criticalActions) : Contains(ToUpper(name), criticalActions[k])

\* the loop over audioStream for marker m: <<maxEnergy, peakTs>>
RECURSIVE scanPeak(_, _, _, _)
scanPeak(audio, m, maxEnergy, peakTs) ==
    IF audio = <<>> THEN <<maxEnergy, peakTs>>
    ELSE LET frame == Head(audio)
         IN  IF frame.ts >= m.Ts /\ frame.ts <= m.Ts + AudioWindowMs /\ frame.peak > maxEnergy
             THEN scanPeak(Tail(audio), m, frame.peak, frame.ts)
             ELSE scanPeak(Tail(audio), m, maxEnergy, peakTs)

syncEventNoLag(audio, m) ==
    LET found == scanPeak(audio, m, 0, 0)
        silent == found[1] < ThresholdAudioPeak
    IN  [ActionMarker |-> m.Name,
         LatencyMs |-> found[2] - m.Ts,
         IsSilent |-> silent,
         Verdict |-> IF silent THEN "FAIL_SILENT" ELSE "PASS"]

syncEvent(audio, m) ==
    LET found == scanPeak(audio, m, 0, 0)
        latency == found[2] - m.Ts
        silent == found[1] < ThresholdAudioPeak
    IN  [ActionMarker |-> m.Name,
         LatencyMs |-> latency,
         IsSilent |-> silent,
         Verdict |-> IF silent THEN "FAIL_SILENT"
                     ELSE IF latency > AudioLagMs THEN "FAIL_LAG"
                     ELSE "PASS"]

analyzeAudioSync(frames, markers) ==
    LET audio == audioStream(frames)
        critical == SelectSeq(markers, LAMBDA m : isCritical(m.Name))
    IN  IF Len(audio) = 0 THEN [SyncEvents |-> <<>>]
        ELSE [SyncEvents |-> [i \in 1..Len(critical) |-> syncEvent(audio, critical[i])]]

filterFrames(frames, start, end) ==
    SelectSeq(frames, LAMBDA f : f.ts >= start /\ f.ts <= end)

entityActivity(d) ==
    (IF d.w # Null THEN Activity(Val(d.w)) ELSE 0)
        + SumSeq([i \in 1..Len(d.a) |-> Activity(d.a[i][2])])

RECURSIVE sumActivity(_, _)
sumActivity(data, ids) ==
    IF ids = {} THEN 0
    ELSE LET id == CHOOSE x \in ids : TRUE
         IN  entityActivity(data[id]) + sumActivity(data, ids \ {id})

\* variance(nums), in thousandths: sum((x - mean)^2) / n = (n*sum(x^2) - sum(x)^2) / n^2
variance(nums) ==
    LET n == Len(nums)
        total == SumSeq(nums)
        squares == SumSeq([i \in 1..n |-> nums[i] * nums[i]])
    IN  IF n < 2 THEN 0
        ELSE (1000 * (n * squares - total * total)) \div (n * n)

\* calculateSignalVariance; targetIDs is null (auto-detected outputs) or <<ids>>
calculateSignalVariance(frames, targetIDs) ==
    LET isTarget(id) == IF targetIDs = Null THEN ~HasPrefix(id, <<"_", "_">>)
                        ELSE id \in Val(targetIDs)
        vals == [i \in 1..Len(frames) |->
                    sumActivity(frames[i].data, {id \in DOMAIN frames[i].data : isTarget(id)})]
    IN  variance(vals)

\* computeCorrelation: the placeholder returns 0.5
computeCorrelation == 5

\* calculateScore that counts the PASS events instead of the failed ones
calculateScorePassFails(intervals, audioSync) ==
    LET fails == Cardinality({i \in 1..Len(intervals) : intervals[i].Verdict = "NO_RESPONSE"})
                   + Cardinality({i \in 1..Len(audioSync.SyncEvents) :
                                     audioSync.SyncEvents[i].Verdict = "PASS"})
        total == IF Len(intervals) = 0 THEN 1 ELSE Len(intervals)
    IN  [num |-> Max2(0, 100 * total - 50 * fails), den |-> total]

\* calculateScore: max(0, 100 - fails / total * 50), kept as the fraction num / den
calculateScore(intervals, audioSync) ==
    LET fails == Cardinality({i \in 1..Len(intervals) : intervals[i].Verdict = "NO_RESPONSE"})
                   + Cardinality({i \in 1..Len(audioSync.SyncEvents) :
                                     audioSync.SyncEvents[i].Verdict # "PASS"})
        total == IF Len(intervals) = 0 THEN 1 ELSE Len(intervals)
    IN  [num |-> Max2(0, 100 * total - 50 * fails), den |-> total]

\* the IntervalDiagnosis of the marker pair (i, i + 1) after judgeInterval
intervalDiagnosis(frames, markers, i) ==
    LET start == markers[i]
        end == markers[i + 1]
        intervalFrames == filterFrames(frames, start.Ts, end.Ts)
        d == [Name |-> <<start.Name, end.Name>>,
              Duration |-> end.Ts - start.Ts,
              InputVariance |-> calculateSignalVariance(intervalFrames, Num({idCursor, idInput})),
              OutputVariance |-> calculateSignalVariance(intervalFrames, Null),
              Correlation |-> computeCorrelation]
    IN  [Name |-> d.Name, Duration |-> d.Duration, InputVariance |-> d.InputVariance,
         OutputVariance |-> d.OutputVariance, Correlation |-> d.Correlation,
         Verdict |-> judgeInterval(d)]

\* AnalyzeScenario on the markers extractMarkers returned
AnalyzeScenario(frames, markers) ==
    LET pairs == [i \in 1..(Len(markers) - 1) |-> i]
        analysed == SelectSeq(pairs, LAMBDA i :
                        /\ ~(markers[i + 1].Ts - markers[i].Ts < MinIntervalMs)
                        /\ ~(Len(filterFrames(frames, markers[i].Ts, markers[i + 1].Ts)) < 2))
        intervals == [k \in 1..Len(analysed) |-> intervalDiagnosis(frames, markers, analysed[k])]
        alerting == SelectSeq(intervals, LAMBDA d : d.Verdict # "HEALTHY" /\ d.Verdict # "IDLE")
        audioSync == analyzeAudioSync(frames, markers)
    IN  [status |-> "ok",
         Intervals |-> intervals,
         AudioSync |-> audioSync,
         Alerts |-> [k \in 1..Len(alerting) |->
                        [Name |-> alerting[k].Name, Verdict |-> alerting[k].Verdict]],
         Score |-> calculateScore(intervals, audioSync)]

----------------------------------------------------------------------------
(* api.go: the Ingest and Diagnose endpoints of one user and one scenario   *)

\* Ingest(req): RPush to the raw stream; the scenario-index branch is empty
Ingest(req) ==
    /\ Len(stream) < MaxStream
    /\ stream' = Append(stream, req)
    /\ report' = NoReport
    /\ UNCHANGED <<newVars, domVars, topoVars, judgeVars, scenarioIndex, extracted, analyzer, tsReport,
                   producer, metric, chanVars, tickVars, sinkVars>>

\* the nil pointers the analysis dereferences.  A null element record decodes to
\* a nil *ElementData and a null metric to a nil *Metric (Null in the model).
\* extractMarkers reads mData.Attrs and metric.C
markersDerefNil(frames) ==
    \E i \in 1..Len(frames) :
        /\ idMarkers \in DOMAIN frames[i].data
        /\ LET mData == frames[i].data[idMarkers]
           IN  IF mData = Null THEN TRUE
               ELSE \E k \in 1..Len(mData.a) : mData.a[k][2] = Null

\* analyzeAudioSync reads node.Attrs and val.H
audioDerefNil(frames) ==
    \E i \in 1..Len(frames) :
        /\ idAudio \in DOMAIN frames[i].data
        /\ LET node == frames[i].data[idAudio]
           IN  IF node = Null THEN TRUE
               ELSE IF hasAttr(node.a, attrPeakLevel) THEN attrOf(node.a, attrPeakLevel) = Null
               ELSE hasAttr(node.a, attrEnergyRms) /\ attrOf(node.a, attrEnergyRms) = Null

\* calculateSignalVariance reads data.W of every target entity (a nil metric
\* among its Attrs is empty to Activity)
varianceDerefNil(frames, targetIDs) ==
    \E i \in 1..Len(frames) :
        \E id \in DOMAIN frames[i].data :
            /\ IF targetIDs = Null THEN ~HasPrefix(id, <<"_", "_">>) ELSE id \in Val(targetIDs)
            /\ frames[i].data[id] = Null

\* the interval loop of AnalyzeScenario reaches a nil element
intervalsDerefNil(frames, markers) ==
    \E i \in 1..(Len(markers) - 1) :
        /\ ~(markers[i + 1].Ts - markers[i].Ts < MinIntervalMs)
        /\ LET intervalFrames == filterFrames(frames, markers[i].Ts, markers[i + 1].Ts)
           IN  /\ ~(Len(intervalFrames) < 2)
               /\ \/ varianceDerefNil(intervalFrames, Num({idCursor, idInput}))
                  \/ varianceDerefNil(intervalFrames, Null)

DiagnoseEmptyReport ==
    /\ \E markers \in extractMarkers(scenarioIndex) :
          /\ extracted' = markers
          /\ report' = AnalyzeScenario(scenarioIndex, markers)
    /\ UNCHANGED <<newVars, domVars, topoVars, judgeVars, stream, scenarioIndex, analyzer, tsReport,
                   producer, metric, chanVars, tickVars, sinkVars>>

\* Diagnose(req): load the scenario's frames, fail when there are none, else
\* analyse; a nil dereference inside the analysis panics and no report is returned
Diagnose ==
    /\ LET frames == scenarioIndex
       IN  IF Len(frames) = 0
           THEN /\ report' = [status |-> "error"]
                /\ extracted' = <<>>
           ELSE IF markersDerefNil(frames)
           THEN /\ report' = [status |-> "panic"]
                /\ extracted' = <<>>
           ELSE \E markers \in extractMarkers(frames) :
                    /\ extracted' = markers
                    /\ report' = IF audioDerefNil(frames) \/ intervalsDerefNil(frames, markers)
                                 THEN [status |-> "panic"]
                                 ELSE AnalyzeScenario(frames, markers)
    /\ UNCHANGED <<newVars, domVars, topoVars, judgeVars, stream, scenarioIndex, analyzer, tsReport,
                   producer, metric, chanVars, tickVars, sinkVars>>

----------------------------------------------------------------------------
(* MarkerAlignmentAnalyzer (client side), default configuration. The ids of *)
(* the model hold no ':', so aggregateSeries never takes a sub-key.         *)

inputSignals == <<idCursor, idInput>>

\* ingest(frame): every entry of __markers__.a becomes a marker, the frame is stored
ingest(an, frame) ==
    LET a == attrsOf(frame, idMarkers)
    IN  [frames |-> Append(an.frames, [ts |-> frame.ts, data |-> frame.data]),
         markers |-> an.markers \o [i \in 1..Len(a) |-> [name |-> a[i][1], timestamp |-> a[i][2].c]]]

\* Array.prototype.sort((a, b) => a.timestamp - b.timestamp): stable
sortMarkers(markers) ==
    LET n == Len(markers)
        place(i) == 1 + Cardinality({j \in 1..n :
                            \/ markers[j].timestamp < markers[i].timestamp
                            \/ markers[j].timestamp = markers[i].timestamp /\ j < i})
    IN  [k \in 1..n |-> markers[CHOOSE i \in 1..n : place(i) = k]]

delta(m) == (m.h - m.l) + Abs(m.c - m.o)

\* the activity aggregateSeries adds for one key in one frame
nodeActivity(f, id) ==
    IF id \notin DOMAIN f.data THEN 0
    ELSE LET node == f.data[id]
         IN  (IF node.w # Null /\ Val(node.w).c # 0 - 1 THEN delta(Val(node.w)) ELSE 0)
                + SumSeq([i \in 1..Len(node.a) |-> delta(node.a[i][2])])

RECURSIVE sumNodes(_, _)
sumNodes(f, ids) ==
    IF ids = {} THEN 0
    ELSE LET id == CHOOSE x \in ids : TRUE
         IN  nodeActivity(f, id) + sumNodes(f, ids \ {id})

\* aggregateSeries(frames, keys), keys without repetition
aggregateSeries(frames, keys) == [i \in 1..Len(frames) |-> sumNodes(frames[i], keys)]

\* detectActiveSignals: ids of the middle and the last frame of the slice that
\* are neither a prefix of an input signal nor system signals
detectActiveSignals(frames) ==
    LET n == Len(frames)
        samples == IF n = 0 THEN {} ELSE {frames[(n \div 2) + 1], frames[n]}
    IN  {id \in UNION {DOMAIN f.data : f \in samples} :
            /\ ~(\E k \in 1..Len(inputSignals) : HasPrefix(inputSignals[k], id))
            /\ ~HasPrefix(id, <<"_", "_">>)}

\* computeVariance, in thousandths
computeVariance(data) ==
    LET n == Len(data)
        total == SumSeq(data)
        squares == SumSeq([i \in 1..n |-> data[i] * data[i]])
    IN  IF n < 2 THEN 0
        ELSE (1000 * (n * squares - total * total)) \div (n * n)

\* computeCorrelation (Pearson r), truncated to tenths
tsComputeCorrelation(x, y) ==
    LET n == Min2(Len(x), Len(y))
        sx == SumSeq([i \in 1..n |-> x[i]])
        sy == SumSeq([i \in 1..n |-> y[i]])
        num == n * SumSeq([i \in 1..n |-> x[i] * y[i]]) - sx * sy
        denX == n * SumSeq([i \in 1..n |-> x[i] * x[i]]) - sx * sx
        denY == n * SumSeq([i \in 1..n |-> y[i] * y[i]]) - sy * sy
        tenths == CHOOSE k \in 0..10 :
                    /\ k * k * denX * denY <= 100 * num * num
                    /\ (k = 10 \/ (k + 1) * (k + 1) * denX * denY > 100 * num * num)
    IN  IF n < 2 THEN 0
        ELSE IF denX * denY = 0 THEN 0
        ELSE IF num < 0 THEN 0 - tenths ELSE tenths

\* the confidence deriveVerdict returns, in hundredths
deriveConfidence(inVar, outVar, corr) ==
    LET verdict == deriveVerdict(inVar, outVar, corr)
    IN  CASE verdict = "IDLE" -> 90
          [] verdict = "NO_RESPONSE" -> 95
          [] verdict = "AUTONOMOUS" -> 80
          [] verdict = "HEALTHY" -> Min2(99, 50 + 10 * Abs(corr))
          [] verdict = "CHAOTIC" -> 70

diagnoseInterval(an, start, end) ==
    LET slice == SelectSeq(an.frames, LAMBDA f : f.ts >= start.timestamp /\ f.ts <= end.timestamp)
        inputSeries == aggregateSeries(slice, {inputSignals[k] : k \in 1..Len(inputSignals)})
        outputSeries == aggregateSeries(slice, detectActiveSignals(slice))
        inputVar == computeVariance(inputSeries)
        outputVar == computeVariance(outputSeries)
        correlation == tsComputeCorrelation(inputSeries, outputSeries)
    IN  [name |-> <<start.name, end.name>>,
         duration |-> end.timestamp - start.timestamp,
         inputActivity |-> inputVar,
         outputActivity |-> outputVar,
         correlation |-> correlation,
         verdict |-> deriveVerdict(inputVar, outputVar, correlation),
         confidence |-> deriveConfidence(inputVar, outputVar, correlation)]

\* analyze(scenarioId) on the analyzer whose markers are already sorted
analyze(an) ==
    LET markers == an.markers
        pairs == [i \in 1..(Len(markers) - 1) |-> i]
        analysed == SelectSeq(pairs, LAMBDA i :
                        ~(markers[i + 1].timestamp - markers[i].timestamp < MinIntervalMs))
        intervals == [k \in 1..Len(analysed) |->
                        diagnoseInterval(an, markers[analysed[k]], markers[analysed[k] + 1])]
        alerting == SelectSeq(intervals, LAMBDA d : d.verdict \in {"NO_RESPONSE", "CHAOTIC"})
        anomalyCount == Len(alerting)
        total == IF Len(intervals) = 0 THEN 1 ELSE Len(intervals)
    IN  [status |-> "ok",
         score |-> [num |-> Max2(0, 100 * total - 100 * anomalyCount), den |-> total],
         intervals |-> intervals,
         alerts |-> [k \in 1..Len(alerting) |->
                        [name |-> alerting[k].name, verdict |-> alerting[k].verdict]]]

----------------------------------------------------------------------------
(* SpecAnalysis: a clock-ordered frame batch reaches the scenario's list in *)
(* the store and the client-side analyzer; either side analyses at any time *)

\* the frame is appended to the scenario's list and ingested by the analyzer
storeFrame(frame) ==
    /\ scenarioIndex' = Append(scenarioIndex, frame)
    /\ analyzer' = ingest(analyzer, frame)
    /\ report' = NoReport
    /\ tsReport' = NoReport
    /\ UNCHANGED <<newVars, domVars, topoVars, judgeVars, stream, extracted,
                   producer, metric, chanVars, tickVars, sinkVars>>

StoreFrame(frame) ==
    /\ Len(scenarioIndex) < MaxBatch
    /\ IF scenarioIndex = <<>> THEN TRUE
       ELSE scenarioIndex[Len(scenarioIndex)].ts <= frame.ts
    /\ storeFrame(frame)

\* analyze(scenarioId): sorts this.markers in place, then diagnoses the intervals
TsAnalyze ==
    /\ LET sorted == [analyzer EXCEPT !.markers = sortMarkers(analyzer.markers)]
       IN  /\ analyzer' = sorted
           /\ tsReport' = analyze(sorted)
    /\ report' = NoReport
    /\ UNCHANGED <<newVars, domVars, topoVars, judgeVars, stream, scenarioIndex, extracted,
                   producer, metric, chanVars, tickVars, sinkVars>>

InitAnalysis == Init

NextAnalysis ==
    \/ \E frame \in AnalysisFrames : StoreFrame(frame)
    \/ Diagnose
    \/ TsAnalyze

SpecAnalysis == InitAnalysis /\ [][NextAnalysis]_vars

----------------------------------------------------------------------------
(* SpecMarkers: frames that carry one or two markers each                   *)

MaxMarkerBatch == 2     \* frames of the marker specification

\* marker closes: none fired (0) or a fire time
MarkerCloses == {0, 10, 60}

markerAttrs ==
    {<<<<name, pointMetric(c)>>>> : name \in MarkerNames, c \in MarkerCloses}
        \cup {<<<<p[1], pointMetric(c1)>>, <<p[2], pointMetric(c2)>>>> :
                p \in {q \in MarkerNames \X MarkerNames : q[1] # q[2]},
                c1 \in MarkerCloses, c2 \in MarkerCloses}

MarkerFrames ==
    {[ts |-> 10, data |-> (idMarkers :> [w |-> Null, a |-> attrs])] : attrs \in markerAttrs}

StoreMarkerFrame(frame) ==
    /\ Len(scenarioIndex) < MaxMarkerBatch
    /\ storeFrame(frame)

InitMarkers == Init

NextMarkers ==
    \/ \E frame \in MarkerFrames : StoreMarkerFrame(frame)
    \/ Diagnose
    \/ TsAnalyze

SpecMarkers == InitMarkers /\ [][NextMarkers]_vars

----------------------------------------------------------------------------
(* SpecApi: the endpoints over a store that holds at most one frame of the  *)
(* scenario                                                                 *)

InitApi ==
    /\ producer = "channel"
    /\ metric = createEmptyMetric
    /\ signals = EmptyMap
    /\ lastCall = NoCall
    /\ result = EmptyMap
    /\ window = [k \in Keys |-> {}]
    /\ now = 0
    /\ lastFlushTime = 0
    /\ isActive = FALSE
    /\ rafId = Null
    /\ scheduled = 0
    /\ tunnel = FALSE
    /\ pendingFrames = <<>>
    /\ delivered = <<>>
    /\ assembled = <<>>
    /\ InitDom /\ InitNewIdle /\ InitTopoIdle /\ InitJudgeIdle
    /\ stream = <<>>
    /\ scenarioIndex \in {<<>>} \cup {<<frame>> : frame \in AnalysisFrames}
    /\ report = NoReport
    /\ extracted = <<>>
    /\ analyzer = NewAnalyzer
    /\ tsReport = NoReport

NextApi ==
    \/ \E req \in AnalysisFrames : Ingest(req)
    \/ Diagnose

SpecApi == InitApi /\ [][NextApi]_vars

----------------------------------------------------------------------------
(* Claims about the analysis reports                                        *)

\* the adjacent marker pairs of at least MinIntervalMs, by index of their start
goLongPairs == {i \in 1..(Len(extracted) - 1) :
                    extracted[i + 1].Ts - extracted[i].Ts >= MinIntervalMs}
tsLongPairs == {i \in 1..(Len(analyzer.markers) - 1) :
                    analyzer.markers[i + 1].timestamp - analyzer.markers[i].timestamp
                        >= MinIntervalMs}

goSlice(i) == filterFrames(scenarioIndex, extracted[i].Ts, extracted[i + 1].Ts)
tsSlice(i) == SelectSeq(analyzer.frames, LAMBDA f :
                  f.ts >= analyzer.markers[i].timestamp
                      /\ f.ts <= analyzer.markers[i + 1].timestamp)

\* C11: every adjacent marker pair of at least 50 ms whose frame slice has fewer
\* than 2 frames appears in the report as an interval with verdict
\* INSUFFICIENT_DATA (and, where the report carries a confidence, confidence 0).
C11_InsufficientData ==
    /\ report.status = "ok" =>
          \A i \in goLongPairs :
              Len(goSlice(i)) < 2 =>
                  \E k \in 1..Len(report.Intervals) :
                      /\ report.Intervals[k].Name = <<extracted[i].Name, extracted[i + 1].Name>>
                      /\ report.Intervals[k].Duration = extracted[i + 1].Ts - extracted[i].Ts
                      /\ report.Intervals[k].Verdict = "INSUFFICIENT_DATA"
    /\ tsReport.status = "ok" =>
          \A i \in tsLongPairs :
              Len(tsSlice(i)) < 2 =>
                  \E k \in 1..Len(tsReport.intervals) :
                      /\ tsReport.intervals[k].name
                            = <<analyzer.markers[i].name, analyzer.markers[i + 1].name>>
                      /\ tsReport.intervals[k].duration
                            = analyzer.markers[i + 1].timestamp - analyzer.markers[i].timestamp
                      /\ tsReport.intervals[k].verdict = "INSUFFICIENT_DATA"
                      /\ tsReport.intervals[k].confidence = 0

\* the (name, close) pairs of the "__markers__" entity over the stored frames,
\* in insertion order
RECURSIVE markerEntries(_)
markerEntries(frames) ==
    IF frames = <<>> THEN <<>>
    ELSE LET f == Head(frames)
         IN  (IF idMarkers \in DOMAIN f.data
              THEN [i \in 1..Len(f.data[idMarkers].a) |->
                       [name |-> f.data[idMarkers].a[i][1],
                        timestamp |-> f.data[idMarkers].a[i][2].c]]
              ELSE <<>>) \o markerEntries(Tail(frames))

\* the markers the frames must give: close > 0, ascending, equal timestamps in
\* insertion order
requiredMarkers ==
    LET fired == SelectSeq(markerEntries(scenarioIndex), LAMBDA m : m.timestamp > 0)
        n == Len(fired)
        before(i, j) == \/ fired[i].timestamp < fired[j].timestamp
                        \/ fired[i].timestamp = fired[j].timestamp /\ i < j
        order == CHOOSE p \in Permutations1(n) :
                    \A i, j \in 1..n : i < j => before(p[i], p[j])
    IN  [k \in 1..n |-> fired[order[k]]]

\* C12: the markers an analysis works on are exactly the "__markers__" attrs with
\* close > 0, ascending by timestamp, equal timestamps in insertion order.
C12_ExtractMarkers ==
    /\ report.status = "ok" =>
          extracted = [k \in 1..Len(requiredMarkers) |->
                          [Name |-> requiredMarkers[k].name, Ts |-> requiredMarkers[k].timestamp]]
    /\ tsReport.status = "ok" => analyzer.markers = requiredMarkers

\* the starts of the adjacent pairs of n markers, in order, that satisfy long
pairSeq(n, long(_)) == SelectSeq([i \in 1..(n - 1) |-> i], long)

goLongSeq == pairSeq(Len(extracted), LAMBDA i : i \in goLongPairs)
tsLongSeq == pairSeq(Len(analyzer.markers), LAMBDA i : i \in tsLongPairs)

\* the Go report has one entry per pair of seq, in order, and counts them as the total
goEntriesAre(seq) ==
    /\ Len(report.Intervals) = Len(seq)
    /\ \A k \in 1..Len(seq) :
          /\ report.Intervals[k].Name = <<extracted[seq[k]].Name, extracted[seq[k] + 1].Name>>
          /\ report.Intervals[k].Duration = extracted[seq[k] + 1].Ts - extracted[seq[k]].Ts
    /\ \A a \in 1..Len(report.Alerts) :
          \E k \in 1..Len(seq) :
              report.Alerts[a].Name = <<extracted[seq[k]].Name, extracted[seq[k] + 1].Name>>
    /\ report.Score.den = Max2(1, Len(seq))

tsEntriesAre(seq) ==
    /\ Len(tsReport.intervals) = Len(seq)
    /\ \A k \in 1..Len(seq) :
          /\ tsReport.intervals[k].name
                = <<analyzer.markers[seq[k]].name, analyzer.markers[seq[k] + 1].name>>
          /\ tsReport.intervals[k].duration
                = analyzer.markers[seq[k] + 1].timestamp - analyzer.markers[seq[k]].timestamp
    /\ \A a \in 1..Len(tsReport.alerts) :
          \E k \in 1..Len(seq) :
              tsReport.alerts[a].name
                  = <<analyzer.markers[seq[k]].name, analyzer.markers[seq[k] + 1].name>>
    /\ tsReport.score.den = Max2(1, Len(seq))

\* C13: a report has exactly one interval entry per adjacent marker pair of at
\* least 50 ms, in order; shorter pairs give no entry, no alert and no share of
\* the score's total.
C13_LongPairsAnalysed ==
    /\ report.status = "ok" => goEntriesAre(goLongSeq)
    /\ tsReport.status = "ok" => tsEntriesAre(tsLongSeq)

\* what the code does satisfy: the TypeScript report has the entries of C13, the
\* Go report those of the long pairs with at least 2 frames in the slice
LongPairsAsImplemented ==
    /\ report.status = "ok" =>
          goEntriesAre(pairSeq(Len(extracted),
                               LAMBDA i : i \in goLongPairs /\ Len(goSlice(i)) >= 2))
    /\ tsReport.status = "ok" => tsEntriesAre(tsLongSeq)

\* the keyword-matching markers Diagnose worked on, and the audio samples
\* inside the window of marker m
criticalMarkers == SelectSeq(extracted, LAMBDA m : isCritical(m.Name))
samplesInWindow(m) ==
    LET audio == audioStream(scenarioIndex)
    IN  {audio[j] : j \in {j \in 1..Len(audio) :
                              audio[j].ts >= m.Ts /\ audio[j].ts <= m.Ts + AudioWindowMs}}

\* C14: an audio-sync event's latencyMs is the timestamp of a sample of maximum
\* high inside [marker.timestamp, marker.timestamp + windowMs] minus
\* marker.timestamp; with no sample in the window it is 0 and isSilent is true;
\* latencyMs is within [0, windowMs].
C14_Latency ==
    (report.status = "ok" /\ report.AudioSync.SyncEvents # <<>>) =>
        \A k \in 1..Len(report.AudioSync.SyncEvents) :
            LET event == report.AudioSync.SyncEvents[k]
                m == criticalMarkers[k]
                inside == samplesInWindow(m)
            IN  /\ IF inside = {}
                   THEN event.LatencyMs = 0 /\ event.IsSilent
                   ELSE \E s \in inside :
                            /\ \A t \in inside : t.peak <= s.peak
                            /\ event.LatencyMs = s.ts - m.Ts
                /\ event.LatencyMs >= 0
                /\ event.LatencyMs <= AudioWindowMs

\* what the code does satisfy: C14 for the events whose window holds a sample
LatencyWithSampleInWindow ==
    (report.status = "ok" /\ report.AudioSync.SyncEvents # <<>>) =>
        \A k \in 1..Len(report.AudioSync.SyncEvents) :
            LET event == report.AudioSync.SyncEvents[k]
                m == criticalMarkers[k]
                inside == samplesInWindow(m)
            IN  inside # {} =>
                    /\ \E s \in inside :
                            /\ \A t \in inside : t.peak <= s.peak
                            /\ event.LatencyMs = s.ts - m.Ts
                    /\ event.LatencyMs >= 0
                    /\ event.LatencyMs <= AudioWindowMs

\* the maximum high over a set of samples, 0 for no sample
maxHigh(samples) ==
    IF samples = {} THEN 0
    ELSE (CHOOSE s \in samples : \A t \in samples : t.peak <= s.peak).peak

\* C15: the verdict of the audio-sync event of a keyword-matching marker is
\* FAIL_SILENT if the maximum high over the samples in [timestamp, timestamp + 300]
\* is below 0.05; otherwise FAIL_LAG if the latency to a sample of that maximum
\* inside the window is above 200 ms; otherwise PASS.  Samples outside the window
\* have no part in it.
C15_AudioVerdict ==
    (report.status = "ok" /\ report.AudioSync.SyncEvents # <<>>) =>
        /\ Len(report.AudioSync.SyncEvents) = Len(criticalMarkers)
        /\ \A k \in 1..Len(criticalMarkers) :
              LET event == report.AudioSync.SyncEvents[k]
                  m == criticalMarkers[k]
                  inside == samplesInWindow(m)
              IN  /\ event.ActionMarker = m.Name
                  /\ IF maxHigh(inside) < ThresholdAudioPeak
                     THEN event.Verdict = "FAIL_SILENT"
                     ELSE /\ \E s \in inside : /\ s.peak = maxHigh(inside)
                                               /\ event.LatencyMs = s.ts - m.Ts
                          /\ event.Verdict = IF event.LatencyMs > AudioLagMs
                                             THEN "FAIL_LAG" ELSE "PASS"

\* a marker is judged silent although a loud sample lies outside its window
C15_Witness ==
    /\ report.status = "ok"
    /\ \E k \in 1..Len(report.AudioSync.SyncEvents) :
          /\ report.AudioSync.SyncEvents[k].Verdict = "FAIL_SILENT"
          /\ samplesInWindow(criticalMarkers[k]) # {}
          /\ \E j \in 1..Len(audioStream(scenarioIndex)) :
                audioStream(scenarioIndex)[j].peak >= ThresholdAudioPeak

\* reports in which a marker is judged late, and in which one passes
AudioLagReported ==
    /\ report.status = "ok"
    /\ \E k \in 1..Len(report.AudioSync.SyncEvents) :
          report.AudioSync.SyncEvents[k].Verdict = "FAIL_LAG"
AudioPassReported ==
    /\ report.status = "ok"
    /\ \E k \in 1..Len(report.AudioSync.SyncEvents) :
          report.AudioSync.SyncEvents[k].Verdict = "PASS"

\* C16: a report has an alert for every NO_RESPONSE or CHAOTIC interval and for
\* every FAIL_SILENT or FAIL_LAG audio event, and no alert for a HEALTHY, IDLE or
\* AUTONOMOUS interval or a PASS audio event.
C16_Alerts ==
    /\ report.status = "ok" =>
          /\ \A k \in 1..Len(report.Intervals) :
                report.Intervals[k].Verdict \in {"NO_RESPONSE", "CHAOTIC"} =>
                    \E a \in 1..Len(report.Alerts) :
                        /\ report.Alerts[a].Name = report.Intervals[k].Name
                        /\ report.Alerts[a].Verdict = report.Intervals[k].Verdict
          /\ \A k \in 1..Len(report.AudioSync.SyncEvents) :
                report.AudioSync.SyncEvents[k].Verdict \in {"FAIL_SILENT", "FAIL_LAG"} =>
                    \E a \in 1..Len(report.Alerts) :
                        report.Alerts[a].Verdict = report.AudioSync.SyncEvents[k].Verdict
          /\ \A a \in 1..Len(report.Alerts) :
                report.Alerts[a].Verdict \notin {"HEALTHY", "IDLE", "AUTONOMOUS", "PASS"}
    /\ tsReport.status = "ok" =>
          /\ \A k \in 1..Len(tsReport.intervals) :
                tsReport.intervals[k].verdict \in {"NO_RESPONSE", "CHAOTIC"} =>
                    \E a \in 1..Len(tsReport.alerts) :
                        /\ tsReport.alerts[a].name = tsReport.intervals[k].name
                        /\ tsReport.alerts[a].verdict = tsReport.intervals[k].verdict
          /\ \A a \in 1..Len(tsReport.alerts) :
                tsReport.alerts[a].verdict \notin {"HEALTHY", "IDLE", "AUTONOMOUS", "PASS"}

\* the two ways the Go report departs from C16, and the TypeScript part of C16
AlertForAutonomous ==
    /\ report.status = "ok"
    /\ \E a \in 1..Len(report.Alerts) : report.Alerts[a].Verdict = "AUTONOMOUS"
AudioFailureWithoutAlert ==
    /\ report.status = "ok"
    /\ \E k \in 1..Len(report.AudioSync.SyncEvents) :
          /\ report.AudioSync.SyncEvents[k].Verdict # "PASS"
          /\ report.Alerts = <<>>
TsAlerts ==
    tsReport.status = "ok" =>
          /\ \A k \in 1..Len(tsReport.intervals) :
                tsReport.intervals[k].verdict \in {"NO_RESPONSE", "CHAOTIC"} =>
                    \E a \in 1..Len(tsReport.alerts) :
                        /\ tsReport.alerts[a].name = tsReport.intervals[k].name
                        /\ tsReport.alerts[a].verdict = tsReport.intervals[k].verdict
          /\ \A a \in 1..Len(tsReport.alerts) :
                tsReport.alerts[a].verdict \notin {"HEALTHY", "IDLE", "AUTONOMOUS", "PASS"}
TsNoResponseReported ==
    /\ tsReport.status = "ok"
    /\ \E k \in 1..Len(tsReport.intervals) : tsReport.intervals[k].verdict = "NO_RESPONSE"

\* score (a fraction num / den) equals max(0, 100 - failCount / max(1, totalChecked) * 50)
\* and lies in [0, 100]
scoreIs(score, failCount, totalChecked) ==
    LET total == Max2(1, totalChecked)
    IN  /\ score.den > 0
        /\ score.num * total = Max2(0, 100 * total - 50 * failCount) * score.den
        /\ score.num >= 0
        /\ score.num <= 100 * score.den

\* C17: the health score of a report is max(0, 100 - failCount / max(1, total) * 50)
\* with failCount the NO_RESPONSE and CHAOTIC intervals plus the non-PASS audio
\* events and total the reported intervals; it lies in [0, 100] and is defined
\* when there are no intervals.
C17_Score ==
    /\ report.status = "ok" =>
          scoreIs(report.Score,
                  Cardinality({k \in 1..Len(report.Intervals) :
                                  report.Intervals[k].Verdict \in {"NO_RESPONSE", "CHAOTIC"}})
                    + Cardinality({k \in 1..Len(report.AudioSync.SyncEvents) :
                                      report.AudioSync.SyncEvents[k].Verdict # "PASS"}),
                  Len(report.Intervals))
    /\ tsReport.status = "ok" =>
          scoreIs(tsReport.score,
                  Cardinality({k \in 1..Len(tsReport.intervals) :
                                  tsReport.intervals[k].verdict \in {"NO_RESPONSE", "CHAOTIC"}}),
                  Len(tsReport.intervals))

\* the Go part of C17, which calculateScore satisfies
GoScore ==
    report.status = "ok" =>
          scoreIs(report.Score,
                  Cardinality({k \in 1..Len(report.Intervals) :
                                  report.Intervals[k].Verdict \in {"NO_RESPONSE", "CHAOTIC"}})
                    + Cardinality({k \in 1..Len(report.AudioSync.SyncEvents) :
                                      report.AudioSync.SyncEvents[k].Verdict # "PASS"}),
                  Len(report.Intervals))

----------------------------------------------------------------------------
(* Claims about the endpoints                                               *)

\* C18: a Diagnose call that finds no stored frame of the scenario answers with
\* the not-found error and no report; a report is produced only from at least
\* one loaded frame.
C18_NotFound ==
    [][report' # report /\ report'.status # "none" =>
          IF Len(scenarioIndex) = 0
          THEN report' = [status |-> "error"]
          ELSE report'.status = "ok"]_vars

\* Diagnose has answered not-found for a scenario without frames
C18_Witness == report.status = "error" /\ scenarioIndex = <<>>

\* C19: an Ingest call for a frame that carries "__markers__" data appends the
\* frame to the scenario index as well as to the raw stream.
C19_IngestIndexes ==
    [][\A req \in AnalysisFrames :
          (stream' = Append(stream, req) /\ idMarkers \in DOMAIN req.data) =>
              scenarioIndex' = Append(scenarioIndex, req)]_vars

\* the consequence C19 names: after a marker frame was ingested, Diagnose does
\* not answer not-found
DiagnoseFindsIngested ==
    (stream # <<>> /\ idMarkers \in DOMAIN stream[1].data) => report.status # "error"

----------------------------------------------------------------------------
(* Claims about cancellation                                                *)

\* C20: when stop completes no pushed sample is left in a channel buffer: what
\* was aggregated since the last flush has gone out as a final frame.
C20_StopFlushes ==
    [][(isActive /\ ~isActive') =>
          \A ck \in DOMAIN signals' : signals'[ck].buffer.o = Null]_vars

\* what the code does: stop leaves every buffer and the sink as they are
StopLeavesBuffers ==
    [][(isActive /\ ~isActive') =>
          /\ signals' = signals
          /\ pendingFrames' = pendingFrames
          /\ delivered' = delivered]_vars

----------------------------------------------------------------------------
(* SpecItered: the earlier DOMTelemetryRuntime (src/viztel/itered), which    *)
(* has no rafId: stop() only clears isActive, elements are registered by    *)
(* registerActiveElements, and tick samples every registry entry.           *)
(* scheduled counts the animation-frame callbacks that are requested and    *)
(* have not run yet.                                                        *)

MaxPendingTicks == 2    \* start() is not called with this many callbacks pending
MaxIterTime == 100      \* the clock of this specification stops here

\* tick(), sampling: every registry entry is sampled, ranked and aggregated
iterSampleRegistry(reg, weightOf) ==
    LET snap == [i \in 1..Len(reg) |-> [id |-> reg[i].id, weight |-> weightOf[reg[i].id]]]
    IN  [i \in 1..Len(reg) |->
            [reg[i] EXCEPT !.lastWeight = snap[i].weight,
                           !.bufferWeight = domUpdateMetric(@, snap[i].weight),
                           !.bufferRank = domUpdateMetric(@, rankOf(snap, i))]]

\* the body of tick() with isActive true, up to requestAnimationFrame
IterTickBody(weightOf) ==
    LET sampled == iterSampleRegistry(registry, weightOf)
    IN  IF now - lastFlushTime' >= FLUSH_INTERVAL_MS
        THEN FlushUnifiedTelemetry(sampled, now)
        ELSE /\ registry' = sampled
             /\ UNCHANGED <<chanVars, delivered, assembled>>

IterAdvanceTime ==
    /\ now < MaxIterTime
    /\ now' = now + TimeStep
    /\ UNCHANGED <<extVars, producer, metric, chanVars, lastFlushTime, isActive, rafId, scheduled, sinkVars>>

\* an element with data-vt-id = id is attached to the document
IterAddElement(id) ==
    /\ id \notin documentIds(document)
    /\ document' = Append(document, [id |-> id, node |-> freshNode(document, registry)])
    /\ UNCHANGED <<newVars, registry, topoVars, judgeVars, anaVars, producer, metric, chanVars, tickVars, sinkVars>>

IterRegisterActiveElements ==
    /\ registry' = scanAndRegister(registry, document)
    /\ UNCHANGED <<newVars, document, topoVars, judgeVars, anaVars, producer, metric, chanVars, tickVars, sinkVars>>

\* start(): the first tick runs inside the call and requests a callback
IterStart(weightOf) ==
    /\ ~isActive
    /\ scheduled < MaxPendingTicks
    /\ isActive' = TRUE
    /\ lastFlushTime' = now
    /\ IterTickBody(weightOf)
    /\ scheduled' = scheduled + 1
    /\ UNCHANGED <<newVars, topoVars, judgeVars, anaVars, document, producer, metric, now, rafId,
                   tunnel, pendingFrames>>

\* stop(): isActive = false, the requested callback stays requested
IterStop ==
    /\ isActive' = FALSE
    /\ UNCHANGED <<extVars, producer, metric, chanVars, now, lastFlushTime, rafId, scheduled, sinkVars>>

\* a requested callback runs tick()
IterTickCallback(weightOf) ==
    /\ scheduled > 0
    /\ IF isActive
       THEN /\ lastFlushTime' = IF now - lastFlushTime >= FLUSH_INTERVAL_MS THEN now
                                ELSE lastFlushTime
            /\ IF now - lastFlushTime >= FLUSH_INTERVAL_MS
               THEN FlushUnifiedTelemetry(iterSampleRegistry(registry, weightOf), now)
               ELSE /\ registry' = iterSampleRegistry(registry, weightOf)
                    /\ UNCHANGED <<chanVars, delivered, assembled>>
            /\ scheduled' = scheduled
       ELSE /\ scheduled' = scheduled - 1
            /\ UNCHANGED <<registry, chanVars, lastFlushTime, delivered, assembled>>
    /\ UNCHANGED <<newVars, topoVars, judgeVars, anaVars, document, producer, metric, now, isActive,
                   rafId, tunnel, pendingFrames>>

InitItered == Init

NextItered ==
    \/ IterAdvanceTime
    \/ AttachTunnel
    \/ DetachTunnel
    \/ PushSample
    \/ \E id \in DomIds : IterAddElement(id)
    \/ IterRegisterActiveElements
    \/ \E weightOf \in Weights : IterStart(weightOf)
    \/ IterStop
    \/ \E weightOf \in Weights : IterTickCallback(weightOf)

SpecItered == InitItered /\ [][NextItered]_vars

----------------------------------------------------------------------------
(* Claims about the ticker's life cycle                                     *)

\* C21: while the runtime is active at most one tick callback is requested, so
\* at most one self-rescheduling tick chain is live, whatever start() and stop()
\* calls and callbacks came before.
C21_SingleTicker == isActive => scheduled <= 1

\* what the rafId runtimes satisfy: one callback while active, none after stop
TickerCancelled == scheduled = (IF isActive THEN 1 ELSE 0)

----------------------------------------------------------------------------
(* Claims about repeated analysis                                           *)

\* C22: an analysis invoked again over the same frames returns the identical
\* report (the stored frames change only in steps that discard the report, so a
\* step from a report to a report is a second invocation over the same frames).
C22_AnalysisRepeatable ==
    [][/\ (report.status = "ok" /\ report'.status = "ok") => report' = report
       /\ (tsReport.status = "ok" /\ tsReport'.status = "ok") => tsReport' = tsReport]_vars

\* the TypeScript part of C22 alone
TsAnalysisRepeatable ==
    [][(tsReport.status = "ok" /\ tsReport'.status = "ok") => tsReport' = tsReport]_vars

----------------------------------------------------------------------------
(* SpecMalformed: Diagnose over stored frames in which an element record or *)
(* a metric is null                                                         *)

MaxRawBatch == 3    \* frames of the malformed-data specification

nilElement(id) == (id :> Null)
nilMetricData(id, attr) == (id :> [w |-> Null, a |-> <<<<attr, Null>>>>])

RawData ==
    {markerData(nameClick, 10), markerData(nameClick, 100), audioData(LoudPeak), outputData,
     nilElement(idMarkers), nilMetricData(idMarkers, nameBoot),
     nilElement(idAudio), nilMetricData(idAudio, attrPeakLevel),
     nilElement(idButton), nilMetricData(idButton, attrX)}

RawFrames == [ts : {10, 100}, data : RawData]

\* a frame, as decoded from the client's JSON, is in the scenario's list
StoreRawFrame(frame) ==
    /\ Len(scenarioIndex) < MaxRawBatch
    /\ IF scenarioIndex = <<>> THEN TRUE
       ELSE scenarioIndex[Len(scenarioIndex)].ts <= frame.ts
    /\ scenarioIndex' = Append(scenarioIndex, frame)
    /\ report' = NoReport
    /\ UNCHANGED <<newVars, domVars, topoVars, judgeVars, stream, extracted, analyzer, tsReport,
                   producer, metric, chanVars, tickVars, sinkVars>>

InitMalformed == Init

NextMalformed ==
    \/ \E frame \in RawFrames : StoreRawFrame(frame)
    \/ Diagnose

SpecMalformed == InitMalformed /\ [][NextMalformed]_vars

\* C23: a Diagnose over frames in which an element record, a marker metric, an
\* audio metric or an attrs entry is null completes and returns a report.
C23_MalformedAsEmpty == report.status # "panic"

\* the null entries the analysis does survive: a null metric among the attrs of
\* an input or output entity
NullAttrSurvived ==
    /\ report.status = "ok"
    /\ Len(report.Intervals) > 0
    /\ \E i \in 1..Len(scenarioIndex) :
          scenarioIndex[i].data = nilMetricData(idButton, attrX)

----------------------------------------------------------------------------
(* Claims about the interval statistics                                     *)

\* the pairs behind the entries of the Go report, in order
goAnalysedSeq ==
    pairSeq(Len(extracted), LAMBDA i : i \in goLongPairs /\ Len(goSlice(i)) >= 2)

\* C24: the correlation of a reported interval is 0 whenever the input or the
\* output series has variance 0 or the slice has fewer than 3 frames, and it is
\* a number within [-1, 1].
C24_Correlation ==
    /\ report.status = "ok" =>
          \A k \in 1..Len(report.Intervals) :
              LET d == report.Intervals[k]
              IN  /\ (d.InputVariance = 0 \/ d.OutputVariance = 0
                        \/ Len(goSlice(goAnalysedSeq[k])) < 3) => d.Correlation = 0
                  /\ d.Correlation >= 0 - MaxCorrelation
                  /\ d.Correlation <= MaxCorrelation
    /\ tsReport.status = "ok" =>
          \A k \in 1..Len(tsReport.intervals) :
              LET d == tsReport.intervals[k]
              IN  /\ (d.inputActivity = 0 \/ d.outputActivity = 0
                        \/ Len(tsSlice(tsLongSeq[k])) < 3) => d.correlation = 0
                  /\ d.correlation >= 0 - MaxCorrelation
                  /\ d.correlation <= MaxCorrelation

\* computeCorrelation of part_001 on a slice of two frames whose input and
\* output both vary: x = [2, 0], y = [0, 2]
TwoFrameCorrelation == tsComputeCorrelation(<<2, 0>>, <<0, 2>>)

\* the entity ids of a slice that are outputs by default: in some frame of the
\* slice, not a system id ("__" prefix) and not an input signal
requiredOutputs(slice) ==
    {id \in UNION {DOMAIN slice[i].data : i \in 1..Len(slice)} :
        /\ ~HasPrefix(id, <<"_", "_">>)
        /\ id \notin {idCursor, idInput}}

\* C25: with no configured outputs, the output series of an interval is taken
\* over exactly the entity ids that appear in some frame of the slice, do not
\* start with "__" and are not input signals.
C25_AutoOutputs ==
    /\ report.status = "ok" =>
          \A k \in 1..Len(report.Intervals) :
              LET slice == goSlice(goAnalysedSeq[k])
              IN  report.Intervals[k].OutputVariance
                      = calculateSignalVariance(slice, Num(requiredOutputs(slice)))
    /\ tsReport.status = "ok" =>
          \A k \in 1..Len(tsReport.intervals) :
              LET slice == tsSlice(tsLongSeq[k])
              IN  /\ detectActiveSignals(slice) = requiredOutputs(slice)
                  /\ tsReport.intervals[k].outputActivity
                        = computeVariance(aggregateSeries(slice, requiredOutputs(slice)))

\* the Go part of C25, which calculateSignalVariance satisfies
GoAutoOutputs ==
    report.status = "ok" =>
          \A k \in 1..Len(report.Intervals) :
              LET slice == goSlice(goAnalysedSeq[k])
              IN  report.Intervals[k].OutputVariance
                      = calculateSignalVariance(slice, Num(requiredOutputs(slice)))

----------------------------------------------------------------------------
(* Claims about the activity of a Metric                                   *)

\* the Metric the Go side decodes from a harvested buffer
decodeMetric(m) == [o |-> Val(m.o), h |-> Val(m.h), l |-> Val(m.l), c |-> Val(m.c)]

\* C29: a Metric that has received a sample has activity
\* (high - low) + |close - open|, whatever its field values, in Metric.Activity
\* and in delta; an absent Metric has activity 0.
C29_Activity ==
    /\ Activity(Null) = 0
    /\ metric.o # Null =>
            LET m == decodeMetric(metric)
                activity == (m.h - m.l) + Abs(m.c - m.o)
            IN  /\ Activity(m) = activity
                /\ delta(m) = activity

\* delta has the claimed value for every sampled Metric
DeltaOfSampled ==
    metric.o # Null =>
        LET m == decodeMetric(metric)
        IN  delta(m) = (m.h - m.l) + Abs(m.c - m.o)

----------------------------------------------------------------------------
(* Claims about the frames the flush paths emit                            *)

\* the frames serialised so far: assembled, handed to the tunnel or queued
emittedFrames == framesOf(assembled) \cup framesOf(delivered) \cup framesOf(pendingFrames)

\* whether an entity of a frame carries a Metric that holds samples
carriesData(entity) ==
    \/ "w" \in DOMAIN entity /\ entity.w.o # 0 - 1
    \/ "r" \in DOMAIN entity /\ entity.r.o # 0 - 1
    \/ "a" \in DOMAIN entity /\ \E k \in DOMAIN entity.a : entity.a[k].o # Null

\* C30: no frame with empty data is emitted, and every entity of an emitted
\* frame carries at least one non-empty Metric.
C30_NoEmptyFrame ==
    \A f \in emittedFrames :
        /\ DOMAIN f.data # {}
        /\ \A id \in DOMAIN f.data : carriesData(f.data[id])

\* a frame was emitted, and the flush cycle that ran last had nothing to
\* report (empty registry, nothing harvested) and emitted none
C30_Witness ==
    /\ assembled # <<>>
    /\ lastCall.op = "harvest"
    /\ result = EmptyMap
    /\ registry = <<>>

\* the standalone flush emits no empty frame either
StandaloneNoEmptyFrame ==
    \A f \in emittedFrames :
        /\ DOMAIN f.data # {}
        /\ \A id \in DOMAIN f.data : \E k \in DOMAIN f.data[id].a : f.data[id].a[k].o # Null

----------------------------------------------------------------------------
(* SpecPrune: pushes at the current time, harvests and pruneStaleSignals.   *)

PruneTimeouts == {0, 50, 100}   \* the timeoutMs values pruneStaleSignals is called with

\* pruneStaleSignals deleting the entries whose age has reached timeoutMs
pruneStaleSignalsInclusive(sig, t, timeoutMs) ==
    [ck \in {k \in DOMAIN sig : ~(t - sig[k].lastUpdateTime >= timeoutMs)} |-> sig[ck]]

\* the signals map pruneStaleSignals(timeoutMs) leaves behind at time t
pruneStaleSignals(sig, t, timeoutMs) ==
    [ck \in {k \in DOMAIN sig : ~(t - sig[k].lastUpdateTime > timeoutMs)} |-> sig[ck]]

InitPrune == Init

\* pushMetric at performance.now()
TimedPushMetric(targetId, metricKey, value) ==
    /\ signals' = pushMetric(signals, targetId, metricKey, value, now)
    /\ lastCall' = Call("pushMetric", <<targetId, metricKey>>, Num(value), createEmptyMetric)
    /\ result' = EmptyMap
    /\ window' = [window EXCEPT ![<<targetId, metricKey>>] = @ \cup {value}]
    /\ UNCHANGED <<extVars, producer, metric, tickVars, sinkVars>>

PruneStaleSignals(timeoutMs) ==
    /\ signals' = pruneStaleSignals(signals, now, timeoutMs)
    /\ lastCall' = Call("pruneStaleSignals", <<>>, Num(timeoutMs), createEmptyMetric)
    /\ UNCHANGED <<extVars, producer, metric, result, window, tickVars, sinkVars>>

NextPrune ==
    \/ AdvanceTime
    \/ \E k \in Keys : TimedPushMetric(k[1], k[2], FlushValue)
    \/ Harvest
    \/ \E timeoutMs \in PruneTimeouts : PruneStaleSignals(timeoutMs)

SpecPrune == InitPrune /\ [][NextPrune]_vars

\* C32: pruneStaleSignals(timeoutMs) removes exactly the entries whose last
\* write is more than timeoutMs old and leaves every other entry - buffer and
\* last-write time - as it was.
C32_PruneStale ==
    [][(lastCall'.op = "pruneStaleSignals" /\ now' = now) =>
        LET timeoutMs == Val(lastCall'.value)
        IN  /\ DOMAIN signals' =
                    {ck \in DOMAIN signals : now - signals[ck].lastUpdateTime <= timeoutMs}
            /\ \A ck \in DOMAIN signals' : signals'[ck] = signals[ck]]_vars

\* a prune removed a key that was pushed to since the last harvest and kept
\* another entry, which still holds samples
C32_Witness ==
    /\ lastCall.op = "pruneStaleSignals"
    /\ \E k \in Keys : window[k] # {} /\ compositeKey(k[1], k[2]) \notin DOMAIN signals
    /\ \E ck \in DOMAIN signals : signals[ck].buffer.o # Null

----------------------------------------------------------------------------
(* SpecHeap: the channel with its Metrics as objects.  heap[ref] is the     *)
(* value of the object ref; updateMetric and the merge of pushAggregated    *)
(* write into the buffer object, harvest hands out objects.                 *)

MaxObjects == 6     \* Metric objects allocated in the heap specification

HeapKeys == {compositeKey(idA, idC), compositeKey(idA, idBC)}

\* pushMetric: a missing ctx gets a new empty buffer object; updateMetric then
\* writes into the buffer object
heapPushMetric(h, b, ck, value) ==
    IF ck \notin DOMAIN b
    THEN [heap |-> Append(h, updateMetric(createEmptyMetric, value)),
          bufferOf |-> (ck :> (Len(h) + 1)) @@ b]
    ELSE [heap |-> [h EXCEPT ![b[ck]] = updateMetric(@, value)], bufferOf |-> b]

\* pushAggregated: a missing ctx or an empty buffer is replaced by a ctx whose
\* buffer is a new object { ...metric }; otherwise h, l, c of the buffer object
\* are written
heapPushAggregated(h, b, ck, m) ==
    IF m.o = Null THEN [heap |-> h, bufferOf |-> b]
    ELSE IF ck \notin DOMAIN b \/ h[b[ck]].o = Null
    THEN [heap |-> Append(h, m), bufferOf |-> (ck :> (Len(h) + 1)) @@ b]
    ELSE [heap |-> [h EXCEPT ![b[ck]] = [o |-> @.o,
                                         h |-> Num(Max2(Val(@.h), Val(m.h))),
                                         l |-> Num(Min2(Val(@.l), Val(m.l))),
                                         c |-> m.c]],
          bufferOf |-> b]

\* harvest handing out the buffer object itself and emptying it in place
RECURSIVE heapHarvestShared(_, _, _, _)
heapHarvestShared(h, b, ret, todo) ==
    IF todo = {} THEN [heap |-> h, bufferOf |-> b, returned |-> ret]
    ELSE LET ck == CHOOSE k \in todo : TRUE
         IN  IF h[b[ck]].o = Null THEN heapHarvestShared(h, b, ret, todo \ {ck})
             ELSE heapHarvestShared([h EXCEPT ![b[ck]] = createEmptyMetric], b,
                                    Append(ret, [ref |-> b[ck], value |-> h[b[ck]]]),
                                    todo \ {ck})

\* harvest: for every non-empty buffer the result gets a new object
\* { ...ctx.buffer } and ctx.buffer becomes a new empty object
RECURSIVE heapHarvest(_, _, _, _)
heapHarvest(h, b, ret, todo) ==
    IF todo = {} THEN [heap |-> h, bufferOf |-> b, returned |-> ret]
    ELSE LET ck == CHOOSE k \in todo : TRUE
         IN  IF h[b[ck]].o = Null THEN heapHarvest(h, b, ret, todo \ {ck})
             ELSE heapHarvest(Append(Append(h, h[b[ck]]), createEmptyMetric),
                              [b EXCEPT ![ck] = Len(h) + 2],
                              Append(ret, [ref |-> Len(h) + 1, value |-> h[b[ck]]]),
                              todo \ {ck})

InitHeap == Init

HeapPushMetric(ck, value) ==
    /\ Len(heap) < MaxObjects
    /\ LET post == heapPushMetric(heap, bufferOf, ck, value)
       IN  heap' = post.heap /\ bufferOf' = post.bufferOf
    /\ UNCHANGED <<domVars, topoVars, judgeVars, anaVars, execVars, injVars, returned,
                   producer, metric, chanVars, tickVars, sinkVars>>

HeapPushAggregated(ck, m) ==
    /\ Len(heap) < MaxObjects
    /\ LET post == heapPushAggregated(heap, bufferOf, ck, m)
       IN  heap' = post.heap /\ bufferOf' = post.bufferOf
    /\ UNCHANGED <<domVars, topoVars, judgeVars, anaVars, execVars, injVars, returned,
                   producer, metric, chanVars, tickVars, sinkVars>>

HeapHarvest ==
    /\ Len(heap) + 2 * Cardinality(DOMAIN bufferOf) <= MaxObjects
    /\ LET post == heapHarvest(heap, bufferOf, returned, DOMAIN bufferOf)
       IN  heap' = post.heap /\ bufferOf' = post.bufferOf /\ returned' = post.returned
    /\ UNCHANGED <<domVars, topoVars, judgeVars, anaVars, execVars, injVars,
                   producer, metric, chanVars, tickVars, sinkVars>>

NextHeap ==
    \/ \E ck \in HeapKeys, value \in Values : HeapPushMetric(ck, value)
    \/ \E ck \in HeapKeys, m \in IncomingMetrics : HeapPushAggregated(ck, m)
    \/ HeapHarvest

SpecHeap == InitHeap /\ [][NextHeap]_vars

\* C33: the Metrics of a harvest snapshot (the Metrics an assembled frame
\* holds) are objects of their own: none is a buffer of the channel, and no
\* later push, merge or harvest changes the value it was returned with.
C33_SnapshotImmutable ==
    \A i \in 1..Len(returned) :
        /\ heap[returned[i].ref] = returned[i].value
        /\ \A ck \in DOMAIN bufferOf : bufferOf[ck] # returned[i].ref

\* after a Metric was returned, its key's new buffer was written by a push and
\* then by a merge, and holds other values than the returned Metric
C33_Witness ==
    \E i \in 1..Len(returned) : \E ck \in DOMAIN bufferOf :
        /\ heap[bufferOf[ck]].o # Null
        /\ heap[bufferOf[ck]].h # heap[bufferOf[ck]].l
        /\ heap[bufferOf[ck]] # returned[i].value
        /\ returned[i].value.h = returned[i].value.l

----------------------------------------------------------------------------
(* SpecTimeline: TimelineExecutor.  execute() is a coroutine: it runs to    *)
(* its next await (the sleep before a step, or dispatchAction), and other    *)
(* calls - execute, abort, another run resuming - come in between.  A run    *)
(* record holds the markers it pushed and counts the step effects (mock     *)
(* install, step marker, action dispatch) it had after it was aborted.       *)

MaxSteps == 2       \* steps of a timeline

ScenarioStart == "__SCENARIO_START__"
ScenarioEnd == "__SCENARIO_END__"
ScenarioError == "__SCENARIO_ERROR__"
StepMarker == "CLICK_PAY"

\* a step: whether it has a mock_context, its marker if any, whether its
\* action throws, and whether its offset_ms lies ahead (so that execute sleeps)
StepKinds ==
    {[mock |-> TRUE, marker |-> <<StepMarker>>, fails |-> FALSE, wait |-> TRUE],
     [mock |-> FALSE, marker |-> <<StepMarker>>, fails |-> FALSE, wait |-> FALSE],
     [mock |-> TRUE, marker |-> <<>>, fails |-> TRUE, wait |-> FALSE]}

Timelines == UNION {[1..n -> StepKinds] : n \in 1..MaxSteps}

\* the executor, the hook and the channel as one value the helpers transform
execContext == [state |-> execState, runs |-> runs, fetchHook |-> fetchHook, signals |-> signals]

\* a step effect of run r: counted when r has been aborted
stepEffect(x, r) ==
    IF x.runs[r].aborted THEN [x EXCEPT !.runs[r].afterAbort = @ + 1] ELSE x

\* pushMarker(name): virtualChannel.pushMetric('__markers__', name, performance.now())
pushMarker(x, r, name) ==
    [x EXCEPT !.runs[r].markers = Append(@, name),
              !.signals = pushMetric(@, idMarkers, <<name>>, now, now)]

\* installMock: save the native fetch on first use, override window.fetch,
\* this.state?.activeMocks.set(...)
installMock(x) ==
    [x EXCEPT !.fetchHook = [fetch |-> "mock", saved |-> TRUE],
              !.state = IF @ = Null THEN Null
                        ELSE [@ EXCEPT !.activeMocks = @ \cup {"url"}]]

\* cleanup: window.fetch = window[FETCH_ORIGINAL] when saved; this.state = null
cleanup(x) ==
    [x EXCEPT !.fetchHook.fetch = IF x.fetchHook.saved THEN "original" ELSE @,
              !.state = Null]

\* abort(): the run that owns this.state is the one aborted
abort(x) ==
    IF x.state = Null THEN x
    ELSE cleanup([x EXCEPT !.state.isRunning = FALSE,
                           !.runs[x.state.owner].aborted = TRUE])

\* execute without the finally block: the end marker and the cleanup only on
\* the path that did not throw
finishNoFinally(x, r, thrown) ==
    LET ended == IF thrown THEN pushMarker(x, r, ScenarioError)
                 ELSE cleanup(pushMarker(x, r, ScenarioEnd))
    IN  [ended EXCEPT !.runs[r].pc = "done"]

\* the catch block (when thrown is true), the finally block, and the return
finish(x, r, thrown) ==
    LET caught == IF thrown THEN pushMarker(x, r, ScenarioError) ELSE x
        ended == cleanup(pushMarker(caught, r, ScenarioEnd))
    IN  [ended EXCEPT !.runs[r].pc = "done"]

\* after the sleep before a step: install its mock, push its marker, call
\* dispatchAction
startStep(x, r) ==
    LET step == x.runs[r].timeline[x.runs[r].idx]
        mocked == IF step.mock THEN stepEffect(installMock(x), r) ELSE x
        marked == IF step.marker # <<>>
                  THEN stepEffect(pushMarker(mocked, r, step.marker[1]), r)
                  ELSE mocked
    IN  [stepEffect(marked, r) EXCEPT !.runs[r].pc = "acting"]

\* the head of the for loop for step idx: the loop is over, this.state is
\* null (this.state.isRunning throws), isRunning is false (break), or the
\* step starts, after a sleep when its time lies ahead
loopHead(x, r) ==
    IF x.runs[r].idx > Len(x.runs[r].timeline) THEN finish(x, r, FALSE)
    ELSE IF x.state = Null THEN finish(x, r, TRUE)
    ELSE IF ~x.state.isRunning THEN finish(x, r, FALSE)
    ELSE IF x.runs[r].timeline[x.runs[r].idx].wait
    THEN [x EXCEPT !.runs[r].pc = "sleeping"]
    ELSE startStep(x, r)

\* execute(timeline) up to its first await
execute(x, r, timeline) ==
    LET freed == IF x.state # Null /\ x.state.isRunning THEN abort(x) ELSE x
        fresh == [freed EXCEPT
                    !.state = [owner |-> r, isRunning |-> TRUE, activeMocks |-> {}],
                    !.runs[r] = [IdleRun EXCEPT !.timeline = timeline, !.idx = 1]]
    IN  loopHead(pushMarker(fresh, r, ScenarioStart), r)

\* the new values of the executor, the hook and the channel
becomes(x) ==
    /\ execState' = x.state
    /\ runs' = x.runs
    /\ fetchHook' = x.fetchHook
    /\ signals' = x.signals
    /\ lastCall' = IF x.signals = signals THEN lastCall
                   ELSE Call("pushMetric", <<>>, Num(now), createEmptyMetric)
    /\ UNCHANGED <<domVars, topoVars, judgeVars, anaVars, heapVars, injVars, producer, metric,
                   result, window, tickVars, sinkVars>>

InitTimeline == Init

\* execute(timeline): calls are numbered in the order they are made
Execute(r, timeline) ==
    /\ runs[r].pc = "idle"
    /\ \A q \in Runs : q < r => runs[q].pc # "idle"
    /\ becomes(execute(execContext, r, timeline))

\* the sleep before a step is over
ResumeSleep(r) ==
    /\ runs[r].pc = "sleeping"
    /\ becomes(startStep(execContext, r))

\* dispatchAction has settled: it threw, or the loop goes on
ResumeAction(r) ==
    /\ runs[r].pc = "acting"
    /\ LET x == execContext
       IN  becomes(IF x.runs[r].timeline[x.runs[r].idx].fails
                   THEN finish(x, r, TRUE)
                   ELSE loopHead([x EXCEPT !.runs[r].idx = @ + 1], r))

Abort ==
    /\ execState # Null
    /\ becomes(abort(execContext))

NextTimeline ==
    \/ \E r \in Runs, timeline \in Timelines : Execute(r, timeline)
    \/ \E r \in Runs : ResumeSleep(r)
    \/ \E r \in Runs : ResumeAction(r)
    \/ Abort

SpecTimeline == InitTimeline /\ [][NextTimeline]_vars

\* a sleep ends and a dispatched action settles
FairTimeline ==
    SpecTimeline /\ \A r \in Runs : WF_vars(ResumeSleep(r)) /\ WF_vars(ResumeAction(r))

----------------------------------------------------------------------------
(* SpecInject: markers pushed into the channel, harvested into frames, the  *)
(* frames stored for the scenario; the markers the analysis extracts.       *)

MaxInjected == 3    \* marker pushes

\* the entries of a harvested target's metrics as the "a" object of the frame
\* the store decodes: <<name, Metric>> pairs, the numbers as float64
attrsEntries(metrics) ==
    LET n == Cardinality(DOMAIN metrics)
        names == CHOOSE q \in [1..n -> DOMAIN metrics] : \A i, j \in 1..n : i # j => q[i] # q[j]
    IN  [i \in 1..n |->
            <<names[i], [o |-> Val(metrics[names[i]].o), h |-> Val(metrics[names[i]].h),
                         l |-> Val(metrics[names[i]].l), c |-> Val(metrics[names[i]].c)]>>]

\* the TelemetryReq the store holds for the payload flushStandalone sent
telemetryReq(payload) ==
    [ts |-> payload.ts,
     data |-> [t \in DOMAIN payload.data |-> [w |-> Null, a |-> attrsEntries(payload.data[t].a)]]]

InitInject == Init

\* pushMarker(name): virtualChannel.pushMetric('__markers__', name, performance.now())
InjectMarker(name) ==
    /\ now > 0
    /\ Len(injected) < MaxInjected
    /\ signals' = pushMetric(signals, idMarkers, name, now, now)
    /\ injected' = Append(injected, [Name |-> name, Ts |-> now])
    /\ lastCall' = Call("pushMetric", <<idMarkers, name>>, Num(now), createEmptyMetric)
    /\ result' = EmptyMap
    /\ UNCHANGED <<domVars, topoVars, judgeVars, anaVars, execVars, heapVars, window,
                   producer, metric, tickVars, sinkVars>>

\* flushStandalone(now) with the frame stored under the scenario
FlushToStore ==
    LET harvested == harvestResult(signals)
    IN  /\ signals' = harvestSignals(signals)
        /\ result' = harvested
        /\ lastCall' = Call("harvest", <<>>, Null, createEmptyMetric)
        /\ scenarioIndex' = IF DOMAIN harvested = {} THEN scenarioIndex
                            ELSE Append(scenarioIndex, telemetryReq(standaloneFrame(now, harvested)))
        /\ UNCHANGED <<domVars, topoVars, judgeVars, newVars, stream, report, extracted, analyzer,
                       tsReport, window, producer, metric, tickVars, sinkVars>>

NextInject ==
    \/ AdvanceTime
    \/ \E name \in MarkerNames : InjectMarker(name)
    \/ FlushToStore

SpecInject == InitInject /\ [][NextInject]_vars

----------------------------------------------------------------------------
(* SpecScore: calculateScore on a report that grows by one interval or one  *)
(* audio-sync event at a time.                                              *)

MaxScored == 3      \* intervals, and audio-sync events, of a scored report

\* the verdicts a Go report holds for an interval (judgeInterval never sets
\* CHAOTIC) and for an audio-sync event
ScoredIntervalVerdicts == {"HEALTHY", "NO_RESPONSE"}
ScoredSyncVerdicts == {"PASS", "FAIL_SILENT"}

\* the part of a DiagnoseRes calculateScore reads, and the Score it sets
scoredReport(intervals, syncEvents) ==
    [status |-> "ok",
     Intervals |-> intervals,
     AudioSync |-> [SyncEvents |-> syncEvents],
     Score |-> calculateScore(intervals, [SyncEvents |-> syncEvents])]

InitScore == Init

scoreStep(r) ==
    /\ report' = r
    /\ UNCHANGED <<newVars, domVars, topoVars, judgeVars, stream, scenarioIndex, extracted,
                   analyzer, tsReport, producer, metric, chanVars, tickVars, sinkVars>>

ScoreEmptyReport ==
    /\ report = NoReport
    /\ scoreStep(scoredReport(<<>>, <<>>))

ScoreWithInterval(verdict) ==
    /\ report.status = "ok"
    /\ Len(report.Intervals) < MaxScored
    /\ scoreStep(scoredReport(Append(report.Intervals, [Verdict |-> verdict]),
                              report.AudioSync.SyncEvents))

ScoreWithSyncEvent(verdict) ==
    /\ report.status = "ok"
    /\ Len(report.AudioSync.SyncEvents) < MaxScored
    /\ scoreStep(scoredReport(report.Intervals,
                              Append(report.AudioSync.SyncEvents, [Verdict |-> verdict])))

NextScore ==
    \/ ScoreEmptyReport
    \/ \E verdict \in ScoredIntervalVerdicts : ScoreWithInterval(verdict)
    \/ \E verdict \in ScoredSyncVerdicts : ScoreWithSyncEvent(verdict)

SpecScore == InitScore /\ [][NextScore]_vars

\* run r is executing: execute was called, has not returned, and the run was
\* not aborted
executing(r) == runs[r].pc \in {"sleeping", "acting"} /\ ~runs[r].aborted

\* C34: window.fetch is hijacked only while a scenario is executing; once its
\* run has ended - completed, failed or aborted - fetch is the native fetch.
C34_MockUndone ==
    fetchHook.fetch = "mock" => \E r \in Runs : executing(r)

\* when every execute() call has returned, fetch is the native fetch
MockUndoneAtEnd ==
    (\A r \in Runs : runs[r].pc \in {"idle", "done"}) => fetchHook.fetch = "original"

\* how often name is among the markers run r pushed
pushCount(r, name) == Cardinality({i \in 1..Len(runs[r].markers) : runs[r].markers[i] = name})

\* the markers of run r so far: the start marker first and once, the end
\* marker at most once and last, and there once the run is over
lifecycleMarkers(r) ==
    LET m == runs[r].markers
    IN  /\ runs[r].pc # "idle" => (m # <<>> /\ m[1] = ScenarioStart)
        /\ pushCount(r, ScenarioStart) <= 1
        /\ pushCount(r, ScenarioEnd) <= 1
        /\ pushCount(r, ScenarioEnd) = 1 <=> runs[r].pc = "done"
        /\ runs[r].pc = "done" => m[Len(m)] = ScenarioEnd

\* C35: every execute() call pushes __SCENARIO_START__ before any other marker
\* and eventually pushes __SCENARIO_END__, exactly once and after its last step
\* marker, whether the timeline completes, a step throws or the run is aborted.
C35_Lifecycle ==
    /\ [](\A r \in Runs : lifecycleMarkers(r))
    /\ \A r \in Runs : (runs[r].pc # "idle") ~> (pushCount(r, ScenarioEnd) = 1)

\* a run that was aborted during a sleep, went on with its step, hit the null
\* state and still ended with the end marker
C35_Witness ==
    \E r \in Runs :
        /\ runs[r].aborted
        /\ runs[r].markers = <<ScenarioStart, StepMarker, ScenarioError, ScenarioEnd>>

\* C36: a run aborted by a later execute() call (or by abort) performs no
\* further step - no mock install, step marker or action dispatch - and a run
\* that ends leaves the state of the run that owns this.state alone.
C36_OneAtATime ==
    [][/\ \A r \in Runs : runs'[r].afterAbort = 0
       /\ \A r \in Runs :
              (runs[r].pc # "done" /\ runs'[r].pc = "done"
                    /\ execState # Null /\ execState.owner # r)
                  => execState' = execState]_vars

----------------------------------------------------------------------------
(* Claims about merging two aggregated Metrics                             *)

\* a step that merges Metric B into a buffer holding exactly Metric A, the
\* Metric the call before merged into it
mergesSecond ==
    /\ lastCall.op = "pushAggregated" /\ lastCall.metric.o # Null
    /\ lastCall'.op = "pushAggregated" /\ lastCall'.metric.o # Null
    /\ compositeKey(lastCall'.key[1], lastCall'.key[2])
            = compositeKey(lastCall.key[1], lastCall.key[2])
    /\ signals[compositeKey(lastCall.key[1], lastCall.key[2])].buffer = lastCall.metric

\* the buffer after merging first, then second into an empty buffer
mergedInOrder(first, second) ==
    pushAggregated(pushAggregated(EmptyMap, idA, idC, first, 0), idA, idC, second, 0)
        [compositeKey(idA, idC)].buffer

\* the original statement of C31: merging A then B gives high = max, low = min
\* and close = B.close, and of the merged Metric only close depends on the
\* order of the two merges.
C31_OnlyCloseOrderDependent ==
    [][mergesSecond =>
        LET A == lastCall.metric
            B == lastCall'.metric
            post == signals'[compositeKey(lastCall'.key[1], lastCall'.key[2])].buffer
            swapped == mergedInOrder(B, A)
        IN  /\ Val(post.h) = Max2(Val(A.h), Val(B.h))
            /\ Val(post.l) = Min2(Val(A.l), Val(B.l))
            /\ post.c = B.c
            /\ swapped.h = post.h /\ swapped.l = post.l
            /\ swapped.o = post.o]_vars

\* C31: merging A then B into an empty buffer gives high = max, low = min,
\* close = B.close and open = A.open; in the opposite order high and low are
\* the same, close is A.close and open is B.open.
C31_MergeOrder ==
    [][mergesSecond =>
        LET A == lastCall.metric
            B == lastCall'.metric
            post == signals'[compositeKey(lastCall'.key[1], lastCall'.key[2])].buffer
            swapped == mergedInOrder(B, A)
        IN  /\ Val(post.h) = Max2(Val(A.h), Val(B.h))
            /\ Val(post.l) = Min2(Val(A.l), Val(B.l))
            /\ post.c = B.c /\ post.o = A.o
            /\ swapped.h = post.h /\ swapped.l = post.l
            /\ swapped.c = A.c /\ swapped.o = B.o]_vars

\* B was merged into a buffer that held A: the high is A's, the low is B's,
\* and close and open differ between the two
C31_Witness ==
    /\ lastCall.op = "pushAggregated" /\ lastCall.metric.o # Null
    /\ LET b == signals[compositeKey(lastCall.key[1], lastCall.key[2])].buffer
       IN  /\ Val(b.h) > Val(lastCall.metric.h)
           /\ Val(b.l) = Val(lastCall.metric.l)
           /\ b.o # lastCall.metric.o
           /\ b.c = lastCall.metric.c

\* every marker pushed has been harvested
allHarvested == nonEmptyKeys(signals) = {}

\* how often marker p is in the list
timesIn(list, p) == Cardinality({i \in 1..Len(list) : list[i] = p})

\* C37: whatever the interleaving of marker pushes and harvests, the markers
\* extracted from the stored frames are the markers pushed - one per push, with
\* its name and timestamp, also when a name is pushed twice between two harvests.
C37_MarkersRecovered ==
    allHarvested =>
        \A markers \in extractMarkers(scenarioIndex) :
            /\ Len(markers) = Len(injected)
            /\ \A i \in 1..Len(injected) : timesIn(markers, injected[i]) = timesIn(injected, injected[i])

\* the same, when every push was harvested before the next push
LoneMarkersRecovered ==
    (allHarvested /\ Len(scenarioIndex) = Len(injected)) =>
        \A markers \in extractMarkers(scenarioIndex) :
            /\ Len(markers) = Len(injected)
            /\ \A i \in 1..Len(injected) : timesIn(markers, injected[i]) = 1

\* the buffer of pair k holds nothing
bufferEmpty(sig, k) ==
    LET ck == compositeKey(k[1], k[2])
    IN  ck \in DOMAIN sig => sig[ck].buffer.o = Null

\* C38: pushes to different (entityId, metricName) pairs never meet in one
\* buffer - a pair nobody pushed to since the last harvest has an empty buffer -
\* and harvest returns Metrics under exactly the pairs that were pushed to, also
\* when an id holds a ':'.
C38_KeysApart ==
    [][/\ \A k \in Keys : window'[k] = {} => bufferEmpty(signals', k)
       /\ lastCall'.op = "harvest" => DOMAIN result' = {k \in Keys : window[k] # {}}]_vars

\* the same for the pairs whose ids hold no ':'
plainKeys == {k \in Keys : lastIndexOfColon(k[1]) = 0 /\ lastIndexOfColon(k[2]) = 0}

PlainKeysApart ==
    [][(\A k \in Keys \ plainKeys : window'[k] = {}) =>
          /\ \A k \in plainKeys : window'[k] = {} => bufferEmpty(signals', k)
          /\ lastCall'.op = "harvest" /\ (\A k \in Keys \ plainKeys : window[k] = {})
                => DOMAIN result' = {k \in plainKeys : window[k] # {}}]_vars

\* C39: the sink receives frames in the order they were produced and each at
\* most once; a send with the sink available hands it the pending frames,
\* oldest first, then the current frame, and leaves the queue empty.
C39_OrderedOnce ==
    [][/\ \A i \in 1..(Len(delivered') - 1) : delivered'[i] < delivered'[i + 1]
       /\ \A i \in 1..Len(delivered') : \E j \in 1..Len(assembled') : assembled'[j] = delivered'[i]
       /\ (tunnel /\ assembled' # assembled) =>
              /\ delivered' = (delivered \o pendingFrames) \o <<assembled'[Len(assembled')]>>
              /\ pendingFrames' = <<>>]_vars

\* a full queue, whose oldest frame had been evicted, was handed to the sink
\* together with the current frame
C39_Witness ==
    /\ tunnel
    /\ pendingFrames = <<>>
    /\ Len(delivered) = MAX_PENDING + 1
    /\ delivered[1] # assembled[1]
    /\ delivered[Len(delivered)] = assembled[Len(assembled)]

\* the report grew by one failing interval / by one failed audio-sync event
addedFailingInterval ==
    /\ report.status = "ok" /\ report'.status = "ok"
    /\ Len(report'.Intervals) = Len(report.Intervals) + 1
    /\ report'.Intervals[Len(report'.Intervals)].Verdict = "NO_RESPONSE"

addedFailedSyncEvent ==
    /\ report.status = "ok" /\ report'.status = "ok"
    /\ Len(report'.AudioSync.SyncEvents) = Len(report.AudioSync.SyncEvents) + 1
    /\ report'.AudioSync.SyncEvents[Len(report'.AudioSync.SyncEvents)].Verdict # "PASS"

\* failCount of the report
failCount(r) ==
    Cardinality({i \in 1..Len(r.Intervals) : r.Intervals[i].Verdict = "NO_RESPONSE"})
        + Cardinality({i \in 1..Len(r.AudioSync.SyncEvents) :
                          r.AudioSync.SyncEvents[i].Verdict # "PASS"})

\* score a <= score b, as fractions
scoreLeq(a, b) == a.num * b.den <= b.num * a.den

\* C40 as stated: one more failing interval or one more non-PASS audio-sync
\* event never increases the score, whatever the fail count.
C40_ScoreMonotone ==
    [][(addedFailingInterval \/ addedFailedSyncEvent)
          => scoreLeq(report'.Score, report.Score)]_vars

\* C40: one more non-PASS audio-sync event never increases the score, and one
\* more failing interval never increases it as long as the fail count does not
\* exceed the interval count.
C40_ScoreMonotoneWithinTotal ==
    [][/\ addedFailedSyncEvent => scoreLeq(report'.Score, report.Score)
       /\ (addedFailingInterval /\ failCount(report) <= Len(report.Intervals))
              => scoreLeq(report'.Score, report.Score)]_vars

\* a report with a failed audio-sync event whose last interval failed and
\* whose score is below 100 and above 0
C40_Witness ==
    /\ report.status = "ok"
    /\ Len(report.Intervals) >= 2
    /\ report.Intervals[Len(report.Intervals)].Verdict = "NO_RESPONSE"
    /\ \E i \in 1..Len(report.AudioSync.SyncEvents) : report.AudioSync.SyncEvents[i].Verdict # "PASS"
    /\ 0 < report.Score.num /\ report.Score.num < 100 * report.Score.den

====
